---- MODULE Spec2Model ----
(***************************************************************************)
(* Session orchestration of the interview backend: the session store, the  *)
(* question sequencer, the phase state machine, the model-facing tools,    *)
(* the two-stage evaluation pipeline with its per-stage retry loop, and    *)
(* the live relay between the client and the model.                        *)
(***************************************************************************)
EXTENDS Integers, Sequences, FiniteSets, TLC

VARIABLES
    sessions,        \* SessionManager._sessions: session id -> InterviewSession
    feedback_store,  \* SessionManager._feedback_store: session id -> report
    runs,            \* one record per run_evaluation coroutine / stage call
    logging,         \* whether this specification records calls in `last`
    last,            \* the most recent synchronous call: operation, input, return value
    hist,            \* what the session was created from, the questions handed out,
                     \* and whether the sequencer has answered "none"
    relay            \* the live relay of the session: the handler, its two tasks,
                     \* the model request queue and what was sent to the client

vars == <<sessions, feedback_store, runs, logging, last, hist, relay>>

\* ------------------------------------------------------------------ bounds

\* Largest requested question count the model draws (the schema allows up to 10).
MaxRequested == 4
\* Largest number of questions a tailored or generated source delivers.
MaxSource == 4
\* Number of candidate transcript entries a session may collect.
MaxCandidate == 1
\* Largest max_retries argument of a direct stage call.
MaxRetriesArg == 3
\* Longest transcript the transcript specification builds entry by entry.
MaxTranscript == 5
\* Number of model events one relay connection receives.
MaxEvents == 2
\* Number of frames the client sends on one relay connection.
MaxFrames == 2
\* Number of further relay connections opened for the session.
MaxOthers == 1
\* Number of parts with inline audio in the content of one model event.
MaxAudioParts == 2

\* ------------------------------------------------------- program constants

\* InterviewConfig.question_count: Field(ge=3, ...)
MinRequested == 3
\* EvaluatorAgent.evaluate / FeedbackAgent.generate_feedback: max_retries default
DefaultMaxRetries == 2

\* Python's None where a string or a time is expected, where a record is
\* expected, and where a question id is expected.
None == "None"
Nil == [nil |-> TRUE]
NoId == <<>>

\* schemas.InterviewPhase
InterviewPhase == {"greeting", "questions", "closing", "complete"}
\* schemas.InterviewStatus
InterviewStatus ==
    {"created", "in_progress", "completed", "evaluating", "evaluated", "failed"}

\* The one session id the model allocates, and an id no session ever has.
SID == "s1"
GhostId == "s0"

Min(a, b) == IF a <= b THEN a ELSE b

\* ------------------------------------------------------ question sources

\* A Question of the session's list (id, prompt text, evaluation criteria).
MkQuestion(id, text, crit) ==
    [id |-> id, question |-> text, evaluation_criteria |-> crit]

\* create_session, first source: every well-formed cached resume question, in
\* order, with no cap by the requested count; a malformed one is skipped.
\* raw is the cached "questions" list: records [id, question, ok], id NoId
\* when the cached question carries none (it then gets "resume-<index>").
RECURSIVE resume_questions(_, _)
resume_questions(raw, i) ==
    IF i > Len(raw) THEN <<>>
    ELSE (IF raw[i].ok
          THEN <<MkQuestion(IF raw[i].id = NoId THEN <<"resume", i - 1>>
                            ELSE raw[i].id,
                            raw[i].question, <<>>)>>
          ELSE <<>>) \o resume_questions(raw, i + 1)

\* generate_questions_from_jd: the first `count` generated questions, each
\* under a fresh id.
generate_questions_from_jd(n, count) ==
    [i \in 1..Min(n, count) |-> MkQuestion(<<"jd", i>>, <<"J", i>>, <<"c", i>>)]

\* QuestionBank.select, last two lines: a random sample of min(count, |pool|)
\* distinct elements of the pool, in any order.
select_sample(pool, count) ==
    LET k == Min(count, Len(pool))
    IN  {[i \in 1..k |-> pool[f[i]]] :
            f \in {g \in [1..k -> 1..Len(pool)] :
                     \A a, b \in 1..k : a # b => g[a] # g[b]}}

\* The catalog question with index i.
BankQuestion(i) == MkQuestion(<<"bank", i>>, <<"B", i>>, <<"c", i>>)

\* create_session that raises when no source resolves a question.
resolve_questions_or_raise(inp) ==
    IF resume_questions(inp.resume, 1) # <<>>
    THEN {resume_questions(inp.resume, 1)}
    ELSE IF inp.jd = "ok" /\ inp.generated > 0
    THEN {generate_questions_from_jd(inp.generated, inp.count)}
    ELSE IF inp.pool = <<>> THEN {}
    ELSE select_sample(inp.pool, inp.count)

\* SessionManager.create_session: the question lists it can resolve for one
\* input.  inp.resume: the cached raw list (empty when there is no cache
\* entry or no resume link); inp.jd: "none" (no job description), "raise"
\* (generation fails) or "ok" with inp.generated questions; inp.pool: the
\* catalog pool the fallback chain ends with.
resolve_questions(inp) ==
    LET fromResume == resume_questions(inp.resume, 1)
        fromJd == IF fromResume = <<>> /\ inp.jd = "ok"
                  THEN generate_questions_from_jd(inp.generated, inp.count)
                  ELSE <<>>
    IN  IF fromResume # <<>> THEN {fromResume}
        ELSE IF fromJd # <<>> THEN {fromJd}
        ELSE select_sample(inp.pool, inp.count)

\* The InterviewSession create_session builds.
NewSession(inp, questions) ==
    [status |-> "created",
     phase |-> "greeting",
     current_question_index |-> 0,
     questions |-> questions,
     transcript |-> <<>>,
     completed_at |-> None,
     question_count |-> inp.count]

\* ------------------------------------------------------- SessionManager

\* SessionManager.get_session
get_session(ss, sid) == IF sid \in DOMAIN ss THEN ss[sid] ELSE Nil

\* update_phase without the status update of the questions phase.
update_phase_no_status(ss, sid, phase) ==
    IF sid \notin DOMAIN ss THEN [sessions |-> ss, ret |-> FALSE]
    ELSE [sessions |->
            [ss EXCEPT ![sid] =
                IF phase = "complete"
                THEN [@ EXCEPT !.phase = phase, !.status = "completed",
                               !.completed_at = "stamped"]
                ELSE [@ EXCEPT !.phase = phase]],
          ret |-> TRUE]

\* SessionManager.update_phase: [sessions, ret]
update_phase(ss, sid, phase) ==
    IF sid \notin DOMAIN ss THEN [sessions |-> ss, ret |-> FALSE]
    ELSE [sessions |->
            [ss EXCEPT ![sid] =
                IF phase = "complete"
                THEN [@ EXCEPT !.phase = phase, !.status = "completed",
                               !.completed_at = "stamped"]
                ELSE IF phase = "questions"
                THEN [@ EXCEPT !.phase = phase, !.status = "in_progress"]
                ELSE [@ EXCEPT !.phase = phase]],
          ret |-> TRUE]

\* SessionManager.update_status: [sessions, ret]
update_status(ss, sid, status) ==
    IF sid \notin DOMAIN ss THEN [sessions |-> ss, ret |-> FALSE]
    ELSE [sessions |-> [ss EXCEPT ![sid].status = status], ret |-> TRUE]

\* add_transcript_entry that puts the new entry in front.
add_transcript_entry_in_front(ss, sid, role, text, question_id) ==
    IF sid \notin DOMAIN ss THEN [sessions |-> ss, ret |-> FALSE]
    ELSE [sessions |->
            [ss EXCEPT ![sid].transcript =
                <<[role |-> role, text |-> text,
                   question_id |-> question_id]>> \o @],
          ret |-> TRUE]

\* SessionManager.add_transcript_entry: [sessions, ret]
add_transcript_entry(ss, sid, role, text, question_id) ==
    IF sid \notin DOMAIN ss THEN [sessions |-> ss, ret |-> FALSE]
    ELSE [sessions |->
            [ss EXCEPT ![sid].transcript =
                Append(@, [role |-> role, text |-> text,
                           question_id |-> question_id])],
          ret |-> TRUE]

\* get_next_question that starts over once the cursor has reached the end.
get_next_question_wrapping(ss, sid) ==
    IF sid \notin DOMAIN ss THEN [sessions |-> ss, ret |-> Nil]
    ELSE IF ss[sid].current_question_index >= Len(ss[sid].questions)
    THEN [sessions |-> [ss EXCEPT ![sid].current_question_index = 0],
          ret |-> Nil]
    ELSE [sessions |-> [ss EXCEPT ![sid].current_question_index = @ + 1],
          ret |-> ss[sid].questions[ss[sid].current_question_index + 1]]

\* get_next_question that hands out the question under the cursor and leaves
\* the cursor where it is.
get_next_question_peek(ss, sid) ==
    IF sid \notin DOMAIN ss THEN [sessions |-> ss, ret |-> Nil]
    ELSE IF ss[sid].current_question_index >= Len(ss[sid].questions)
    THEN [sessions |-> ss, ret |-> Nil]
    ELSE [sessions |-> ss,
          ret |-> ss[sid].questions[ss[sid].current_question_index + 1]]

\* SessionManager.get_next_question: [sessions, ret], ret a Question or Nil
get_next_question(ss, sid) ==
    IF sid \notin DOMAIN ss THEN [sessions |-> ss, ret |-> Nil]
    ELSE IF ss[sid].current_question_index >= Len(ss[sid].questions)
    THEN [sessions |-> ss, ret |-> Nil]
    ELSE [sessions |-> [ss EXCEPT ![sid].current_question_index = @ + 1],
          ret |-> ss[sid].questions[ss[sid].current_question_index + 1]]

\* "".join(parts): the parts run together without a separator.
RECURSIVE join_unseparated(_)
join_unseparated(parts) ==
    IF parts = <<>> THEN <<>>
    ELSE parts[1] \o join_unseparated(Tail(parts))

\* " ".join(parts): texts are token sequences, the separator is the token " ".
RECURSIVE join(_)
join(parts) ==
    IF parts = <<>> THEN <<>>
    ELSE IF Len(parts) = 1 THEN parts[1]
    ELSE parts[1] \o <<" ">> \o join(Tail(parts))

\* The criteria of the first question of the list, whatever its id.
criteria_of_first(questions, qid) ==
    IF questions = <<>> THEN <<>> ELSE Head(questions).evaluation_criteria

\* next((q for q in session.questions if q.id == qid), None), then its criteria
RECURSIVE criteria_of(_, _)
criteria_of(questions, qid) ==
    IF questions = <<>> THEN <<>>
    ELSE IF Head(questions).id = qid THEN Head(questions).evaluation_criteria
    ELSE criteria_of(Tail(questions), qid)

\* The record appended for the question being closed.
qa_record(questions, current_question, parts) ==
    [question |-> current_question.text,
     question_id |-> current_question.question_id,
     answer |-> join(parts),
     evaluation_criteria |-> criteria_of(questions, current_question.question_id)]

\* A question id is truthy unless it is None or the empty string.
Truthy(question_id) == question_id \notin {NoId, <<"">>}

\* The loop with current_answer_parts emptied only when a record is closed, so
\* that what the candidate said before the first question stays in the parts.
RECURSIVE qa_scan_keeping_parts(_, _, _, _)
qa_scan_keeping_parts(questions, transcript, i, acc) ==
    IF i > Len(transcript)
    THEN IF acc.current_question # Nil
         THEN Append(acc.result,
                     qa_record(questions, acc.current_question,
                               acc.current_answer_parts))
         ELSE acc.result
    ELSE LET entry == transcript[i]
         IN  IF entry.role = "interviewer" /\ Truthy(entry.question_id)
             THEN qa_scan_keeping_parts(questions, transcript, i + 1,
                    [result |->
                        IF acc.current_question # Nil
                        THEN Append(acc.result,
                                    qa_record(questions, acc.current_question,
                                              acc.current_answer_parts))
                        ELSE acc.result,
                     current_question |->
                        [text |-> entry.text, question_id |-> entry.question_id],
                     current_answer_parts |->
                        IF acc.current_question # Nil THEN <<>>
                        ELSE acc.current_answer_parts])
             ELSE IF entry.role = "candidate"
             THEN qa_scan_keeping_parts(questions, transcript, i + 1,
                    [acc EXCEPT !.current_answer_parts = Append(@, entry.text)])
             ELSE qa_scan_keeping_parts(questions, transcript, i + 1, acc)

\* SessionManager.get_transcript_for_evaluation, the loop over the transcript:
\* acc = [result, current_question, current_answer_parts].
RECURSIVE qa_scan(_, _, _, _)
qa_scan(questions, transcript, i, acc) ==
    IF i > Len(transcript)
    THEN IF acc.current_question # Nil
         THEN Append(acc.result,
                     qa_record(questions, acc.current_question,
                               acc.current_answer_parts))
         ELSE acc.result
    ELSE LET entry == transcript[i]
         IN  IF entry.role = "interviewer" /\ Truthy(entry.question_id)
             THEN qa_scan(questions, transcript, i + 1,
                    [result |->
                        IF acc.current_question # Nil
                        THEN Append(acc.result,
                                    qa_record(questions, acc.current_question,
                                              acc.current_answer_parts))
                        ELSE acc.result,
                     current_question |->
                        [text |-> entry.text, question_id |-> entry.question_id],
                     current_answer_parts |-> <<>>])
             ELSE IF entry.role = "candidate"
             THEN qa_scan(questions, transcript, i + 1,
                    [acc EXCEPT !.current_answer_parts = Append(@, entry.text)])
             ELSE qa_scan(questions, transcript, i + 1, acc)

\* get_transcript_for_evaluation that derives records only once the interview
\* is over.
get_transcript_for_evaluation_when_over(ss, sid) ==
    IF sid \notin DOMAIN ss THEN [found |-> FALSE, data |-> <<>>]
    ELSE IF ss[sid].status \notin {"completed", "evaluating"}
    THEN [found |-> TRUE, data |-> <<>>]
    ELSE [found |-> TRUE,
          data |-> qa_scan(ss[sid].questions, ss[sid].transcript, 1,
                           [result |-> <<>>, current_question |-> Nil,
                            current_answer_parts |-> <<>>])]

\* SessionManager.get_transcript_for_evaluation: [found, data]; found is
\* FALSE for Python's None, data are the QA records.
get_transcript_for_evaluation(ss, sid) ==
    IF sid \notin DOMAIN ss THEN [found |-> FALSE, data |-> <<>>]
    ELSE [found |-> TRUE,
          data |-> qa_scan(ss[sid].questions, ss[sid].transcript, 1,
                           [result |-> <<>>, current_question |-> Nil,
                            current_answer_parts |-> <<>>])]

\* store_feedback that sets the status and stores nothing.
store_feedback_status_only(ss, fs, sid, feedback) ==
    IF sid \notin DOMAIN ss
    THEN [sessions |-> ss, feedback_store |-> fs, ret |-> FALSE]
    ELSE [sessions |-> [ss EXCEPT ![sid].status = "evaluated"],
          feedback_store |-> fs, ret |-> TRUE]

\* store_feedback that stores the report without looking the session up.
store_feedback_unchecked(ss, fs, sid, feedback) ==
    [sessions |-> IF sid \in DOMAIN ss
                  THEN [ss EXCEPT ![sid].status = "evaluated"] ELSE ss,
     feedback_store |->
       [x \in DOMAIN fs \cup {sid} |-> IF x = sid THEN feedback ELSE fs[x]],
     ret |-> TRUE]

\* store_feedback that stores the report and leaves the status as it is.
store_feedback_keep_status(ss, fs, sid, feedback) ==
    IF sid \notin DOMAIN ss
    THEN [sessions |-> ss, feedback_store |-> fs, ret |-> FALSE]
    ELSE [sessions |-> ss,
          feedback_store |->
            [x \in DOMAIN fs \cup {sid} |-> IF x = sid THEN feedback ELSE fs[x]],
          ret |-> TRUE]

\* SessionManager.store_feedback: [sessions, feedback_store, ret]
store_feedback(ss, fs, sid, feedback) ==
    IF sid \notin DOMAIN ss
    THEN [sessions |-> ss, feedback_store |-> fs, ret |-> FALSE]
    ELSE [sessions |-> [ss EXCEPT ![sid].status = "evaluated"],
          feedback_store |->
            [x \in DOMAIN fs \cup {sid} |-> IF x = sid THEN feedback ELSE fs[x]],
          ret |-> TRUE]

\* SessionManager.get_feedback
get_feedback(fs, sid) == IF sid \in DOMAIN fs THEN fs[sid] ELSE Nil

\* ------------------------------------------------------- model-facing tools

\* The tool get_next_question recording the question without its id.
tool_get_next_question_untagged(ss, sid) ==
    LET got == get_next_question(ss, sid)
    IN  IF got.ret = Nil
        THEN [sessions |-> ss, ret |-> [has_question |-> FALSE]]
        ELSE LET added == add_transcript_entry(got.sessions, sid, "interviewer",
                                               got.ret.question, NoId)
                 session == get_session(added.sessions, sid)
             IN  [sessions |-> added.sessions,
                  ret |-> [has_question |-> TRUE,
                           question |-> got.ret.question,
                           question_number |->
                              IF session # Nil
                              THEN session.current_question_index ELSE 0,
                           total_questions |->
                              IF session # Nil THEN Len(session.questions) ELSE 0]]

\* _build_tools.get_next_question: [sessions, ret]
tool_get_next_question(ss, sid) ==
    LET got == get_next_question(ss, sid)
    IN  IF got.ret = Nil
        THEN [sessions |-> ss, ret |-> [has_question |-> FALSE]]
        ELSE LET added == add_transcript_entry(got.sessions, sid, "interviewer",
                                               got.ret.question, got.ret.id)
                 session == get_session(added.sessions, sid)
             IN  [sessions |-> added.sessions,
                  ret |-> [has_question |-> TRUE,
                           question |-> got.ret.question,
                           question_number |->
                              IF session # Nil
                              THEN session.current_question_index ELSE 0,
                           total_questions |->
                              IF session # Nil THEN Len(session.questions) ELSE 0]]

\* signal_phase_change that hands the string to update_phase unvalidated.
signal_phase_change_unchecked(ss, sid, phase) ==
    LET upd == update_phase(ss, sid, phase)
    IN  [sessions |-> upd.sessions,
         ret |-> [success |-> upd.ret, phase |-> phase]]

\* _build_tools.signal_phase_change: [sessions, ret]
signal_phase_change(ss, sid, phase) ==
    IF phase \notin InterviewPhase
    THEN [sessions |-> ss, ret |-> [success |-> FALSE]]
    ELSE LET upd == update_phase(ss, sid, phase)
         IN  [sessions |-> upd.sessions,
              ret |-> [success |-> upd.ret, phase |-> phase]]

\* ------------------------------------------------------ stage retry loop

\* What one attempt of a stage call can end with: a final response whose text
\* parses, a final response whose text does not parse, an exception, an
\* escalation, or an event stream that ends without a final response.
SuccessKinds == {"parsed", "raw_text"}
FailureKinds == {"exception", "escalated", "no_final"}
AttemptKinds == SuccessKinds \cup FailureKinds

\* A run slot nobody has used: no coroutine, no stage frame.
IdleRun(r) ==
    [id |-> r, pc |-> "idle", caller |-> None, session_id |-> None,
     entered_from |-> None,
     stage |-> 0, max_retries |-> 0, attempt |-> 0, calls |-> 0, delays |-> 0,
     log |-> <<>>, last_error |-> None, eval_result |-> Nil, result |-> Nil]

\* Entering evaluate / generate_feedback: last_error = None and the first
\* iteration of `for attempt in range(max_retries + 1)` starts its agent call
\* (suspended in it when max_retries + 1 > 0).
stage_call(run, stage, max_retries) ==
    [run EXCEPT !.stage = stage, !.max_retries = max_retries, !.attempt = 0,
                !.calls = 1, !.delays = 0, !.log = <<>>, !.last_error = None,
                !.pc = "attempt"]

\* EvaluatorAgent.evaluate, called by the pipeline with the default max_retries
evaluate(run, max_retries) == stage_call(run, 1, max_retries)

\* FeedbackAgent.generate_feedback on the Stage 1 result
generate_feedback(run, evaluation_data, max_retries) ==
    stage_call([run EXCEPT !.eval_result = evaluation_data], 2, max_retries)

\* last_error after a failed attempt: the exception text, the escalation
\* text, or "No final response received" when no error was recorded before.
next_last_error(last_error, kind) ==
    IF kind = "no_final"
    THEN (IF last_error = None THEN "no_final" ELSE last_error)
    ELSE kind

\* The loop body of a loop over range(max_retries): one attempt too few.
retry_attempt_short(run, kind) ==
    IF kind \in SuccessKinds
    THEN [run |-> [run EXCEPT !.log = Append(@, "success")],
          ret |-> [status |-> "success", shape |-> kind,
                   stage |-> run.stage, run |-> run.id]]
    ELSE LET err == next_last_error(run.last_error, kind)
             failed == [run EXCEPT !.log = Append(@, "failure"),
                                   !.last_error = err]
         IN  IF run.attempt + 1 < run.max_retries
             THEN [run |-> [failed EXCEPT !.pc = "sleep", !.delays = @ + 1],
                   ret |-> Nil]
             ELSE [run |-> failed,
                   ret |-> [status |-> "error", message |-> err,
                            stage |-> run.stage]]

\* A loop body that takes a final response whose text does not parse for a
\* failed attempt.
retry_attempt_parsed_only(run, kind) ==
    IF kind = "parsed"
    THEN [run |-> [run EXCEPT !.log = Append(@, "success")],
          ret |-> [status |-> "success", shape |-> kind,
                   stage |-> run.stage, run |-> run.id]]
    ELSE LET err == next_last_error(run.last_error, kind)
             failed == [run EXCEPT !.log = Append(@, "failure"),
                                   !.last_error = err]
         IN  IF run.attempt < run.max_retries
             THEN [run |-> [failed EXCEPT !.pc = "sleep", !.delays = @ + 1],
                   ret |-> Nil]
             ELSE [run |-> failed,
                   ret |-> [status |-> "error", message |-> err,
                            stage |-> run.stage]]

\* The body of one loop iteration from the point its agent call ends:
\* [run, ret]; ret is Nil while the call goes on (asleep before the next
\* attempt), the stage result once it returns.
retry_attempt(run, kind) ==
    IF kind \in SuccessKinds
    THEN [run |-> [run EXCEPT !.log = Append(@, "success")],
          ret |-> [status |-> "success", shape |-> kind,
                   stage |-> run.stage, run |-> run.id]]
    ELSE LET err == next_last_error(run.last_error, kind)
             failed == [run EXCEPT !.log = Append(@, "failure"),
                                   !.last_error = err]
         IN  IF run.attempt < run.max_retries
             THEN [run |-> [failed EXCEPT !.pc = "sleep", !.delays = @ + 1],
                   ret |-> Nil]
             ELSE [run |-> failed,
                   ret |-> [status |-> "error", message |-> err,
                            stage |-> run.stage]]

\* asyncio.sleep(2.0) is over: the next iteration starts its agent call.
retry_wake(run) ==
    [run EXCEPT !.pc = "attempt", !.attempt = @ + 1, !.calls = @ + 1]

\* ---------------------------------------------------- evaluation pipeline

\* A precondition without the re-entry of a session that is being evaluated.
pipeline_accepts_completed_only(status) == status = "completed"

\* A precondition that also lets an interview in progress through.
pipeline_accepts_in_progress(status) ==
    status \in {"in_progress", "completed", "evaluating"}

\* The statuses run_evaluation accepts.
pipeline_accepts(status) == status \in {"completed", "evaluating"}

\* run_evaluation returns `result`.
returned(run, result) == [run EXCEPT !.pc = "returned", !.result = result]

ErrorResult(message) == [status |-> "error", message |-> message]

\* run_evaluation that marks the session failed when building the Stage 1
\* request throws.
run_evaluation_raise_failed(ss, fs, sid, run, raises) ==
    LET session == get_session(ss, sid)
    IN  IF session = Nil
        THEN [sessions |-> ss, feedback_store |-> fs,
              run |-> returned(run, ErrorResult("Session not found"))]
        ELSE LET entered == [run EXCEPT !.entered_from = session.status]
             IN  IF ~pipeline_accepts(session.status)
                 THEN [sessions |-> ss, feedback_store |-> fs,
                       run |-> returned(entered, ErrorResult("not completed"))]
                 ELSE LET evaluating == update_status(ss, sid, "evaluating").sessions
                          transcript_data ==
                              get_transcript_for_evaluation(evaluating, sid)
                      IN  IF ~transcript_data.found \/ transcript_data.data = <<>>
                          THEN [sessions |-> evaluating, feedback_store |-> fs,
                                run |-> returned([entered EXCEPT !.stage = 0],
                                          ErrorResult("No transcript data found"))]
                          ELSE IF raises
                          THEN [sessions |->
                                  update_status(evaluating, sid, "failed").sessions,
                                feedback_store |-> fs,
                                run |-> returned([entered EXCEPT !.stage = 1],
                                          ErrorResult("Pipeline error"))]
                          ELSE [sessions |-> evaluating, feedback_store |-> fs,
                                run |-> evaluate(entered, DefaultMaxRetries)]

\* run_evaluation from its call to its first suspension (inside Stage 1) or
\* its return: [sessions, feedback_store, run].  raises: building the Stage 1
\* request throws.
run_evaluation(ss, fs, sid, run, raises) ==
    LET session == get_session(ss, sid)
    IN  IF session = Nil
        THEN [sessions |-> ss, feedback_store |-> fs,
              run |-> returned(run, ErrorResult("Session not found"))]
        ELSE LET entered == [run EXCEPT !.entered_from = session.status]
             IN  IF ~pipeline_accepts(session.status)
                 THEN [sessions |-> ss, feedback_store |-> fs,
                       run |-> returned(entered, ErrorResult("not completed"))]
                 ELSE LET evaluating == update_status(ss, sid, "evaluating").sessions
                          transcript_data ==
                              get_transcript_for_evaluation(evaluating, sid)
                      IN  IF ~transcript_data.found \/ transcript_data.data = <<>>
                          THEN [sessions |-> evaluating, feedback_store |-> fs,
                                run |-> returned([entered EXCEPT !.stage = 0],
                                          ErrorResult("No transcript data found"))]
                          ELSE IF raises
                          THEN [sessions |->
                                  update_status(evaluating, sid, "completed").sessions,
                                feedback_store |-> fs,
                                run |-> returned([entered EXCEPT !.stage = 1],
                                          ErrorResult("Pipeline error"))]
                          ELSE [sessions |-> evaluating, feedback_store |-> fs,
                                run |-> evaluate(entered, DefaultMaxRetries)]

\* run_evaluation_resume that marks the session failed when a stage fails.
run_evaluation_resume_failed(ss, fs, sid, run, ret, raises) ==
    IF ret.status # "success"
    THEN [sessions |-> update_status(ss, sid, "failed").sessions,
          feedback_store |-> fs,
          run |-> returned(run,
                    ErrorResult(IF run.stage = 1 THEN "Evaluation failed"
                                ELSE "Feedback generation failed"))]
    ELSE IF run.stage = 1
    THEN IF raises
         THEN [sessions |-> update_status(ss, sid, "completed").sessions,
               feedback_store |-> fs,
               run |-> returned([run EXCEPT !.eval_result = ret, !.stage = 2],
                                ErrorResult("Pipeline error"))]
         ELSE [sessions |-> ss, feedback_store |-> fs,
               run |-> generate_feedback(run, ret, DefaultMaxRetries)]
    ELSE LET stored == store_feedback(ss, fs, sid, ret)
         IN  [sessions |-> stored.sessions,
              feedback_store |-> stored.feedback_store,
              run |-> returned(run, ret)]

\* run_evaluation from the return of a stage call (ret) to its next
\* suspension or its return: [sessions, feedback_store, run].  raises: building
\* the Stage 2 request throws.
run_evaluation_resume(ss, fs, sid, run, ret, raises) ==
    IF ret.status # "success"
    THEN [sessions |-> update_status(ss, sid, "completed").sessions,
          feedback_store |-> fs,
          run |-> returned(run,
                    ErrorResult(IF run.stage = 1 THEN "Evaluation failed"
                                ELSE "Feedback generation failed"))]
    ELSE IF run.stage = 1
    THEN IF raises
         THEN [sessions |-> update_status(ss, sid, "completed").sessions,
               feedback_store |-> fs,
               run |-> returned([run EXCEPT !.eval_result = ret, !.stage = 2],
                                ErrorResult("Pipeline error"))]
         ELSE [sessions |-> ss, feedback_store |-> fs,
               run |-> generate_feedback(run, ret, DefaultMaxRetries)]
    ELSE LET stored == store_feedback(ss, fs, sid, ret)
         IN  [sessions |-> stored.sessions,
              feedback_store |-> stored.feedback_store,
              run |-> returned(run, ret)]

\* ------------------------------------------------------------ live relay

\* A message the relay sends to the client; ev is the number of the model
\* event whose processing sent it (0: sent by the handler itself).
Msg(type, role, text, is_final, phase, ev) ==
    [type |-> type, role |-> role, text |-> text, is_final |-> is_final,
     phase |-> phase, ev |-> ev]

AudioMsg(ev) == Msg("audio", "-", <<>>, FALSE, "-", ev)
TranscriptMsg(role, text, is_final, ev) ==
    Msg("transcript", role, text, is_final, "-", ev)
PhaseMsg(phase, ev) == Msg("phase", "-", <<>>, FALSE, phase, ev)
MetadataMsg == Msg("metadata", "-", <<>>, FALSE, "-", 0)
CompleteMsg(ev) == Msg("interview_complete", "-", <<>>, FALSE, "-", ev)
ErrorMsg(ev) == Msg("error", "-", <<>>, FALSE, "-", ev)

\* No failure has ended the outbound task.
NoFailure == [src |-> "none", normal |-> FALSE, has1000 |-> FALSE]

\* The ways iteration of the model event stream fails: a normal close (its
\* text names the code 1000), and any other failure, whose text may or may
\* not contain "1000".
StreamFailures ==
    {[src |-> "stream", normal |-> TRUE, has1000 |-> TRUE]}
    \cup {[src |-> "stream", normal |-> FALSE, has1000 |-> h] : h \in BOOLEAN}

\* The failures of a send to a client that has gone.
SendFailures == {[src |-> "send", normal |-> FALSE, has1000 |-> h] : h \in BOOLEAN}

\* No relay: the session has no connection.  others: the number of further
\* connections of the session whose task pair is running; other: where the
\* handler of a further connection is suspended before its tasks start.
NoRelay ==
    [handler |-> "none", client |-> "none", inbound |-> "idle",
     outbound |-> "idle", queue_closed |-> FALSE, to_model |-> <<>>,
     frames |-> <<>>, events |-> <<>>, at |-> 0,
     pending |-> Msg("-", "-", <<>>, FALSE, "-", 0),
     output_done |-> FALSE, input_done |-> FALSE, sent |-> <<>>,
     failure |-> NoFailure, others |-> 0, other |-> "none"]

\* The awaits of interview_websocket outside its two tasks: ws.close for a
\* session that does not exist (line 84), ws.accept (87), the ADK
\* create_session (109), the sends of the greeting phase (120) and of the
\* metadata (121), the send of the error message in the handler's `except`
\* (277).
HandlerAwaits ==
    {"closing", "accepting", "creating", "send_greeting", "send_metadata",
     "send_error"}

\* Where interview_websocket is after the call awaited at `at` returned or
\* raised.  Lines 82-125 are outside the `try`: an exception there leaves the
\* handler; the error send is inside a `try` of its own.  After ws.close the
\* handler returns.  fails: setting up
\* the request queue throws.
handler_after(at, raised, fails) ==
    IF raised THEN (IF at = "send_error" THEN "returned" ELSE "raised")
    ELSE CASE at = "accepting" -> "creating"
           [] at = "creating" -> "send_greeting"
           [] at = "send_greeting" -> "send_metadata"
           [] at = "send_metadata" -> IF fails THEN "send_error" ELSE "running"
           [] OTHER -> "returned"

\* interview_websocket from the return (or the exception, raised) of the call
\* it awaits to its next await: a completed close has closed the connection
\* unaccepted, a completed send has reached the client; after the metadata the request queue gets
\* the initial prompt, both tasks start and the handler waits in
\* asyncio.gather, or, when setting up the queue throws (fails), the handler
\* sends an error message and returns.
interview_websocket(rl, raised, fails) ==
    LET at == rl.handler
        on == [rl EXCEPT !.handler = handler_after(at, raised, fails)]
    IN  IF raised \/ at \in {"accepting", "creating"} THEN on
        ELSE IF at = "closing"
        THEN [on EXCEPT !.client = "closed"]
        ELSE IF at = "send_greeting"
        THEN [on EXCEPT !.sent = Append(@, PhaseMsg("greeting", 0))]
        ELSE IF at = "send_metadata"
        THEN IF fails
             THEN [on EXCEPT !.sent = Append(@, MetadataMsg)]
             ELSE [on EXCEPT !.sent = Append(@, MetadataMsg),
                             !.inbound = "receiving",
                             !.outbound = "await_event",
                             !.to_model = <<"content">>]
        ELSE [on EXCEPT !.sent = Append(@, ErrorMsg(0))]

\* The frames a client sends: binary audio, a text_input message, another
\* well-formed message, text that is not JSON, a text_input without text.
FrameKinds == {"bytes", "text_input", "other", "bad_json", "no_text"}
MalformedFrames == {"bad_json", "no_text"}

\* An inbound task that ends and leaves the request queue open.
inbound_stops_queue_open(rl) == [rl EXCEPT !.inbound = "done"]

\* The `finally` of forward_client_input: the request queue is closed.
inbound_stops(rl) == [rl EXCEPT !.inbound = "done", !.queue_closed = TRUE]

\* An inbound task that takes every well-formed text frame for a text_input.
forward_client_input_any_type(rl, ss, sid, kind) ==
    LET got == [rl EXCEPT !.frames = Append(@, kind)]
    IN  IF kind = "bytes"
        THEN [relay |-> [got EXCEPT !.to_model = Append(@, "realtime")],
              sessions |-> ss]
        ELSE IF kind \in {"text_input", "other"}
        THEN [relay |-> [got EXCEPT !.to_model = Append(@, "content")],
              sessions |-> add_transcript_entry(ss, sid, "candidate",
                               <<"t", Len(got.frames)>>, NoId).sessions]
        ELSE [relay |-> inbound_stops(got), sessions |-> ss]

\* An inbound task for which a text_input starts a new turn: the agent's
\* speech is forwarded again.
forward_client_input_new_turn(rl, ss, sid, kind) ==
    LET got == [rl EXCEPT !.frames = Append(@, kind)]
    IN  IF kind = "bytes"
        THEN [relay |-> [got EXCEPT !.to_model = Append(@, "realtime")],
              sessions |-> ss]
        ELSE IF kind = "text_input"
        THEN [relay |-> [got EXCEPT !.to_model = Append(@, "content"),
                                    !.output_done = FALSE],
              sessions |-> add_transcript_entry(ss, sid, "candidate",
                               <<"t", Len(got.frames)>>, NoId).sessions]
        ELSE IF kind = "other"
        THEN [relay |-> got, sessions |-> ss]
        ELSE [relay |-> inbound_stops(got), sessions |-> ss]

\* forward_client_input, one round of its loop on a received frame:
\* [relay, sessions].  json.loads and msg["text"] throw on a malformed frame,
\* which leaves the loop.  The text of the n-th frame is <<"t", n>>.
forward_client_input(rl, ss, sid, kind) ==
    LET got == [rl EXCEPT !.frames = Append(@, kind)]
    IN  IF kind = "bytes"
        THEN [relay |-> [got EXCEPT !.to_model = Append(@, "realtime")],
              sessions |-> ss]
        ELSE IF kind = "text_input"
        THEN [relay |-> [got EXCEPT !.to_model = Append(@, "content")],
              sessions |-> add_transcript_entry(ss, sid, "candidate",
                               <<"t", Len(got.frames)>>, NoId).sessions]
        ELSE IF kind = "other"
        THEN [relay |-> got, sessions |-> ss]
        ELSE [relay |-> inbound_stops(got), sessions |-> ss]

\* What a model event carries: the number of parts with inline audio in its
\* content, a fragment of the agent's speech and a fragment of the
\* candidate's speech (none, interim or final).
Fragments == {"none", "interim", "final"}
EventArgs ==
    {[audio |-> 0, out |-> o, inp |-> i] : o \in Fragments, i \in Fragments}
    \cup {[audio |-> a, out |-> o, inp |-> "none"] :
             a \in 1..MaxAudioParts, o \in {"none", "final"}}

\* The audio messages sent so far for event n: `for part in
\* event.content.parts` has got that far.
AudioSent(rl, n) ==
    Cardinality({i \in 1..Len(rl.sent) :
                   rl.sent[i].type = "audio" /\ rl.sent[i].ev = n})

\* The outbound task is about to await the send of msg, at position `at` of
\* the loop body (1 audio, 2 agent transcript, 3 user transcript, 4 phase,
\* 5 interview_complete).
awaiting_send(rl, at, msg) ==
    [rl EXCEPT !.outbound = "sending", !.at = at, !.pending = msg]

\* The loop body that announces the end of the interview in place of the
\* complete phase.
outbound_seek_unannounced(rl, ss, sid, p) ==
    LET n == Len(rl.events)
        event == rl.events[n]
        current_session == get_session(ss, sid)
        s4 == IF current_session # Nil
              THEN IF current_session.phase = "complete"
                   THEN awaiting_send(rl, 5, CompleteMsg(n))
                   ELSE awaiting_send(rl, 4, PhaseMsg(current_session.phase, n))
              ELSE [rl EXCEPT !.outbound = "await_event", !.at = 0]
        s3 == IF event.inp # "none" /\ ~rl.input_done
              THEN awaiting_send(rl, 3,
                     TranscriptMsg("user", <<"u", n>>, event.inp = "final", n))
              ELSE s4
        s2 == IF event.out # "none" /\ ~rl.output_done
              THEN awaiting_send(rl, 2,
                     TranscriptMsg("agent", <<"x">>, event.out = "final", n))
              ELSE s3
        s1 == IF AudioSent(rl, n) < event.audio
              THEN awaiting_send(rl, 1, AudioMsg(n)) ELSE s2
    IN  CASE p = 1 -> s1 [] p = 2 -> s2 [] p = 3 -> s3 [] OTHER -> s4

\* forward_agent_responses, the loop body from position p to its next send,
\* or to the next event when nothing is left to send.
outbound_seek(rl, ss, sid, p) ==
    LET n == Len(rl.events)
        event == rl.events[n]
        current_session == get_session(ss, sid)
        s4 == IF current_session # Nil
              THEN awaiting_send(rl, 4, PhaseMsg(current_session.phase, n))
              ELSE [rl EXCEPT !.outbound = "await_event", !.at = 0]
        s3 == IF event.inp # "none" /\ ~rl.input_done
              THEN awaiting_send(rl, 3,
                     TranscriptMsg("user", <<"u", n>>, event.inp = "final", n))
              ELSE s4
        s2 == IF event.out # "none" /\ ~rl.output_done
              THEN awaiting_send(rl, 2,
                     TranscriptMsg("agent", <<"x">>, event.out = "final", n))
              ELSE s3
        s1 == IF AudioSent(rl, n) < event.audio
              THEN awaiting_send(rl, 1, AudioMsg(n)) ELSE s2
    IN  CASE p = 1 -> s1 [] p = 2 -> s2 [] p = 3 -> s3 [] OTHER -> s4

\* The flags after a final fragment that only re-enable the other role.
after_final_unmarked(rl, role) ==
    IF role = "agent" THEN [rl EXCEPT !.input_done = FALSE]
    ELSE [rl EXCEPT !.output_done = FALSE]

\* output_done / input_done after the final fragment of `role` was sent: the
\* role is done, the other role may speak.
after_final(rl, role) ==
    IF role = "agent"
    THEN [rl EXCEPT !.output_done = TRUE, !.input_done = FALSE]
    ELSE [rl EXCEPT !.input_done = TRUE, !.output_done = FALSE]

\* An outbound task that records every fragment of the candidate's speech it
\* sends, interim ones included.
outbound_resume_every_fragment(rl, ss, sid) ==
    LET done == [rl EXCEPT !.sent = Append(@, rl.pending)]
        msg == rl.pending
        added == add_transcript_entry(ss, sid, "candidate", msg.text,
                                      NoId).sessions
    IN  CASE rl.at = 1 ->
               [relay |-> outbound_seek(done, ss, sid, 1), sessions |-> ss]
          [] rl.at = 2 ->
               [relay |->
                  outbound_seek(IF msg.is_final THEN after_final(done, "agent")
                                ELSE done, ss, sid, 3),
                sessions |-> ss]
          [] rl.at = 3 ->
               [relay |->
                  outbound_seek(IF msg.is_final THEN after_final(done, "user")
                                ELSE done, added, sid, 4),
                sessions |-> added]
          [] rl.at = 4 ->
               [relay |->
                  IF ss[sid].phase = "complete"
                  THEN awaiting_send(done, 5, CompleteMsg(msg.ev))
                  ELSE [done EXCEPT !.outbound = "await_event", !.at = 0],
                sessions |-> ss]
          [] OTHER ->
               [relay |-> [done EXCEPT !.outbound = "done", !.at = 0],
                sessions |-> ss]

\* forward_agent_responses from the completion of the pending send to the
\* next send, the next event or the return: [relay, sessions].
outbound_resume(rl, ss, sid) ==
    LET done == [rl EXCEPT !.sent = Append(@, rl.pending)]
        msg == rl.pending
    IN  CASE rl.at = 1 ->
               [relay |-> outbound_seek(done, ss, sid, 1), sessions |-> ss]
          [] rl.at = 2 ->
               [relay |->
                  outbound_seek(IF msg.is_final THEN after_final(done, "agent")
                                ELSE done, ss, sid, 3),
                sessions |-> ss]
          [] rl.at = 3 ->
               IF msg.is_final
               THEN LET added == add_transcript_entry(ss, sid, "candidate",
                                                      msg.text, NoId).sessions
                    IN  [relay |->
                           outbound_seek(after_final(done, "user"),
                                         added, sid, 4),
                         sessions |-> added]
               ELSE [relay |-> outbound_seek(done, ss, sid, 4), sessions |-> ss]
          [] rl.at = 4 ->
               [relay |->
                  IF ss[sid].phase = "complete"
                  THEN awaiting_send(done, 5, CompleteMsg(msg.ev))
                  ELSE [done EXCEPT !.outbound = "await_event", !.at = 0],
                sessions |-> ss]
          [] OTHER ->
               [relay |-> [done EXCEPT !.outbound = "done", !.at = 0],
                sessions |-> ss]

\* The `except` of forward_agent_responses up to its await: when the failure
\* text contains "1000" the task ends, otherwise it sends one error message
\* (position 6).
outbound_except(rl, failure) ==
    LET caught == [rl EXCEPT !.failure = failure]
    IN  IF failure.has1000
        THEN [caught EXCEPT !.outbound = "done", !.at = 0]
        ELSE awaiting_send(caught, 6, ErrorMsg(Len(rl.events)))

\* forward_agent_responses when its pending send throws: a send of the loop
\* body enters the `except`; the error send is inside a `try` of its own and
\* the task ends without a message.
outbound_send_raised(rl, failure) ==
    IF rl.at = 6 THEN [rl EXCEPT !.outbound = "done", !.at = 0]
    ELSE outbound_except(rl, failure)

\* ------------------------------------------------------------------ state

\* The run slots: two run_evaluation coroutines (or direct stage calls) can
\* be alive at once.
Runs == {1, 2}

\* The lowest run slot not yet used.
FreeRun(r) == runs[r].pc = "idle" /\ \A q \in Runs : q < r => runs[q].pc # "idle"

\* The slots the pipeline specification uses: one run at a time.
OneRun == {1}

NoCall == [op |-> "none", tick |-> 0]

\* `last` after a call, in a specification that records calls; tick flips
\* with every recorded call.
Logged(op, arg, ret) ==
    last' = IF logging
            THEN [op |-> op, arg |-> arg, ret |-> ret, tick |-> 1 - last.tick]
            ELSE last

InitWith(log) ==
    /\ sessions = <<>>
    /\ feedback_store = <<>>
    /\ runs = [r \in Runs |-> IdleRun(r)]
    /\ logging = log
    /\ last = NoCall
    /\ hist = [source |-> "none", resolved |-> 0, served |-> 0,
               exhausted |-> FALSE]
    /\ relay = NoRelay

\* ---------------------------------------------------------------- inputs

\* The catalog pool with n questions.
Pool(n) == [i \in 1..n |-> BankQuestion(i)]

\* A cached resume question: well-formed or malformed, with or without id.
RawQuestion(i, ok) ==
    [id |-> IF i % 2 = 0 THEN NoId ELSE <<"r", i>>, question |-> <<"R", i>>,
     ok |-> ok]

\* Every create_session input within the bounds.
WideInputs ==
    {[count |-> c, resume |-> raw, jd |-> jd, generated |-> g, pool |-> Pool(p)] :
        c \in MinRequested..MaxRequested,
        raw \in UNION {{[i \in 1..n |-> RawQuestion(i, i # bad)] : bad \in 0..n} :
                        n \in 0..MaxSource},
        jd \in {"none", "raise", "ok"},
        g \in 0..MaxSource,
        p \in 0..MaxSource}

\* The inputs of the pipeline specification: a session with no question or
\* with one catalog question.
NarrowInputs ==
    {[count |-> MinRequested, resume |-> <<>>, jd |-> "none", generated |-> 0,
      pool |-> Pool(p)] : p \in 0..1}

\* The input of the transcript specification: two catalog questions.
QAInputs ==
    {[count |-> MinRequested, resume |-> <<>>, jd |-> "none", generated |-> 0,
      pool |-> Pool(2)]}

\* The transcript entries the transcript specification appends: what the
\* candidate said, an interviewer line that is no catalog question, and the
\* two catalog questions under their ids.
EntryArgs ==
    {[role |-> "candidate", text |-> <<x>>, question_id |-> NoId] :
        x \in {"a", "b", "c"}}
    \cup {[role |-> "interviewer", text |-> <<"hello">>, question_id |-> NoId]}
    \cup {[role |-> "interviewer", text |-> BankQuestion(i).question,
           question_id |-> BankQuestion(i).id] : i \in 1..2}

\* The phase names the model passes to signal_phase_change.
PhaseArgs == InterviewPhase \cup {"bogus"}

\* --------------------------------------------------------------- actions

\* The source create_session takes the questions from, and how many
\* questions that source delivered.
resolved_from(inp) ==
    IF resume_questions(inp.resume, 1) # <<>>
    THEN [source |-> "resume", resolved |-> Len(resume_questions(inp.resume, 1))]
    ELSE IF inp.jd = "ok" /\ Min(inp.generated, inp.count) > 0
    THEN [source |-> "jd", resolved |-> inp.generated]
    ELSE [source |-> "bank", resolved |-> Len(inp.pool)]

\* SessionManager.create_session
create_session(inp) ==
    /\ SID \notin DOMAIN sessions
    /\ \E questions \in resolve_questions(inp) :
          /\ sessions' = [x \in {SID} |-> NewSession(inp, questions)]
          /\ Logged("create_session", inp.count, [questions |-> Len(questions)])
    /\ hist' = [source |-> resolved_from(inp).source,
                resolved |-> resolved_from(inp).resolved, served |-> 0,
                exhausted |-> FALSE]
    /\ UNCHANGED <<feedback_store, runs, logging, relay>>

\* The model calls the tool get_next_question.
ToolGetNextQuestion(sid) ==
    LET out == tool_get_next_question(sessions, sid)
    IN  /\ sessions' = out.sessions
        /\ hist' = [hist EXCEPT !.served =
                        IF out.ret.has_question THEN @ + 1 ELSE @,
                                !.exhausted = @ \/ ~out.ret.has_question]
        /\ Logged("get_next_question", sid, out.ret)
        /\ UNCHANGED <<feedback_store, runs, logging, relay>>

\* SessionManager.get_next_question is called on its own.
NextQuestion(sid) ==
    LET out == get_next_question(sessions, sid)
    IN  /\ sessions' = out.sessions
        /\ hist' = [hist EXCEPT !.served = IF out.ret # Nil THEN @ + 1 ELSE @,
                                !.exhausted = @ \/ out.ret = Nil]
        /\ Logged("next_question", sid, out.ret)
        /\ UNCHANGED <<feedback_store, runs, logging, relay>>

\* The model calls the tool signal_phase_change.
ToolSignalPhaseChange(sid, phase) ==
    LET out == signal_phase_change(sessions, sid, phase)
    IN  /\ sessions' = out.sessions
        /\ Logged("signal_phase_change", phase, out.ret)
        /\ UNCHANGED <<feedback_store, runs, logging, hist, relay>>

\* The number of candidate entries of a transcript.
CandidateCount(transcript) ==
    Cardinality({i \in 1..Len(transcript) : transcript[i].role = "candidate"})

\* add_transcript_entry is called for the candidate: an entry without a
\* question id is appended to the session's transcript.
CandidateEntry(sid, text) ==
    /\ sid \in DOMAIN sessions
    /\ CandidateCount(sessions[sid].transcript) < MaxCandidate
    /\ sessions' = add_transcript_entry(sessions, sid, "candidate", text, NoId).sessions
    /\ UNCHANGED <<feedback_store, runs, logging, last, hist, relay>>

\* SessionManager.add_transcript_entry is called with entry e.
AddTranscriptEntry(sid, e) ==
    /\ sid \in DOMAIN sessions
    /\ Len(sessions[sid].transcript) < MaxTranscript
    /\ sessions' = add_transcript_entry(sessions, sid, e.role, e.text,
                                        e.question_id).sessions
    /\ UNCHANGED <<feedback_store, runs, logging, last, hist, relay>>

\* SessionManager.get_transcript_for_evaluation is called; the call is
\* recorded with the transcript it read.
ReadTranscript(sid) ==
    /\ sid \in DOMAIN sessions
    /\ Logged("get_transcript_for_evaluation", sessions[sid].transcript,
              get_transcript_for_evaluation(sessions, sid))
    /\ UNCHANGED <<sessions, feedback_store, runs, logging, hist, relay>>

\* interview_websocket up to its first await: for a session that does not
\* exist the handler closes the connection with code 4004 without accepting
\* it; otherwise it accepts the connection.
websocket_endpoint(ss, sid) ==
    IF get_session(ss, sid) = Nil
    THEN [NoRelay EXCEPT !.handler = "closing", !.client = "open"]
    ELSE [NoRelay EXCEPT !.handler = "accepting", !.client = "open"]

\* A client connects to /ws/interview/{sid} of an existing session.
RelayConnect(sid) ==
    /\ sid \in DOMAIN sessions
    /\ relay.handler = "none"
    /\ relay' = websocket_endpoint(sessions, sid)
    /\ UNCHANGED <<sessions, feedback_store, runs, logging, last, hist>>

\* The call the handler awaits returns and the handler runs on to its next
\* await.
HandlerResumes ==
    /\ relay.handler \in HandlerAwaits
    /\ \E fails \in BOOLEAN : relay' = interview_websocket(relay, FALSE, fails)
    /\ UNCHANGED <<sessions, feedback_store, runs, logging, last, hist>>

\* The call the handler awaits throws: ws.close, ws.accept or a send because
\* the client has gone, the ADK create_session for any reason.
HandlerAwaitRaises ==
    /\ relay.handler \in HandlerAwaits
    /\ relay.handler = "creating" \/ relay.client = "gone"
    /\ relay' = interview_websocket(relay, TRUE, FALSE)
    /\ UNCHANGED <<sessions, feedback_store, runs, logging, last, hist>>

\* ws.receive() returns a frame and the inbound task handles it.
ClientFrame(sid, kind) ==
    /\ relay.inbound = "receiving"
    /\ relay.client = "open"
    /\ Len(relay.frames) < MaxFrames
    /\ LET out == forward_client_input(relay, sessions, sid, kind)
       IN  relay' = out.relay /\ sessions' = out.sessions
    /\ UNCHANGED <<feedback_store, runs, logging, last, hist>>

\* The client closes its connection.
ClientDisconnect ==
    /\ relay.client = "open"
    /\ relay' = [relay EXCEPT !.client = "gone"]
    /\ UNCHANGED <<sessions, feedback_store, runs, logging, last, hist>>

\* ws.receive() fails on the closed connection: the inbound task ends.
InboundDisconnected ==
    /\ relay.inbound = "receiving"
    /\ relay.client = "gone"
    /\ relay' = inbound_stops(relay)
    /\ UNCHANGED <<sessions, feedback_store, runs, logging, last, hist>>

\* The model calls the tool signal_phase_change: tools run while the outbound
\* task waits for the next event of runner.run_live.
RelayTool(sid, phase) ==
    /\ relay.outbound = "await_event"
    /\ ToolSignalPhaseChange(sid, phase)

\* runner.run_live yields an event: the loop body runs to its first send.
EventArrives(sid, event) ==
    /\ relay.outbound = "await_event"
    /\ Len(relay.events) < MaxEvents
    /\ relay' = outbound_seek([relay EXCEPT !.events = Append(@, event)],
                              sessions, sid, 1)
    /\ UNCHANGED <<sessions, feedback_store, runs, logging, last, hist>>

\* The pending send returns.
SendCompletes(sid) ==
    /\ relay.outbound = "sending"
    /\ LET out == outbound_resume(relay, sessions, sid)
       IN  relay' = out.relay /\ sessions' = out.sessions
    /\ UNCHANGED <<feedback_store, runs, logging, last, hist>>

\* The pending send throws because the client has gone.
SendRaises ==
    /\ relay.outbound = "sending"
    /\ relay.client = "gone"
    /\ \E failure \in SendFailures :
          relay' = outbound_send_raised(relay, failure)
    /\ UNCHANGED <<sessions, feedback_store, runs, logging, last, hist>>

\* Iteration of runner.run_live throws.
StreamFails ==
    /\ relay.outbound = "await_event"
    /\ \E failure \in StreamFailures : relay' = outbound_except(relay, failure)
    /\ UNCHANGED <<sessions, feedback_store, runs, logging, last, hist>>

\* Iteration of runner.run_live ends after the request queue was closed.
StreamEnds ==
    /\ relay.outbound = "await_event"
    /\ relay.queue_closed
    /\ relay' = [relay EXCEPT !.outbound = "done"]
    /\ UNCHANGED <<sessions, feedback_store, runs, logging, last, hist>>

\* asyncio.gather returns: both tasks have ended, the handler returns.
HandlerReturns ==
    /\ relay.handler = "running"
    /\ relay.inbound = "done"
    /\ relay.outbound = "done"
    /\ relay' = [relay EXCEPT !.handler = "returned"]
    /\ UNCHANGED <<sessions, feedback_store, runs, logging, last, hist>>

\* A feedback endpoint that hands out whatever report is stored.
route_get_feedback_any_status(ss, fs, sid) ==
    LET session == get_session(ss, sid)
    IN  IF session = Nil THEN [code |-> 404, kind |-> "session_not_found", body |-> Nil]
        ELSE IF get_feedback(fs, sid) = Nil
        THEN [code |-> 404, kind |-> "feedback_not_found", body |-> Nil]
        ELSE [code |-> 200, kind |-> "report", body |-> get_feedback(fs, sid)]

\* GET /{session_id}/feedback: the response (status code, what it is, report).
route_get_feedback(ss, fs, sid) ==
    LET session == get_session(ss, sid)
    IN  IF session = Nil THEN [code |-> 404, kind |-> "session_not_found", body |-> Nil]
        ELSE IF session.status = "evaluating"
        THEN [code |-> 200, kind |-> "evaluating", body |-> Nil]
        ELSE IF session.status # "evaluated"
        THEN [code |-> 400, kind |-> "not_available", body |-> Nil]
        ELSE IF get_feedback(fs, sid) = Nil
        THEN [code |-> 404, kind |-> "feedback_not_found", body |-> Nil]
        ELSE [code |-> 200, kind |-> "report", body |-> get_feedback(fs, sid)]

\* A client requests GET /{session_id}/feedback.
GetFeedback(sid) ==
    /\ Logged("get_feedback", sid, route_get_feedback(sessions, feedback_store, sid))
    /\ UNCHANGED <<sessions, feedback_store, runs, logging, hist, relay>>

\* POST /{session_id}/evaluate: schedules run_evaluation as a background task
\* when the session is completed.
evaluate_interview(sid, r) ==
    LET session == get_session(sessions, sid)
    IN  /\ (session # Nil /\ session.status = "completed") => FreeRun(r)
        /\ IF session = Nil
           THEN Logged("evaluate_interview", sid, [status_code |-> 404]) /\ UNCHANGED runs
           ELSE IF session.status # "completed"
           THEN Logged("evaluate_interview", sid, [status_code |-> 400]) /\ UNCHANGED runs
           ELSE /\ runs' = [runs EXCEPT ![r] =
                              [@ EXCEPT !.pc = "scheduled", !.caller = "endpoint",
                                        !.session_id = sid]]
                /\ Logged("evaluate_interview", sid, [status_code |-> 200])
        /\ UNCHANGED <<sessions, feedback_store, logging, hist, relay>>

\* run_evaluation applied to run slot r, up to its first suspension.
RunEnters(r, sid, run, raises) ==
    LET out == run_evaluation(sessions, feedback_store, sid, run, raises)
    IN  /\ sessions' = out.sessions
        /\ feedback_store' = out.feedback_store
        /\ runs' = [runs EXCEPT ![r] = out.run]
        /\ UNCHANGED <<logging, last, hist, relay>>

\* The background task starts running.
RunEvaluationStart(r) ==
    /\ runs[r].pc = "scheduled"
    /\ \E raises \in BOOLEAN :
          RunEnters(r, runs[r].session_id, runs[r], raises)

\* run_evaluation is called directly.
RunEvaluationDirect(r, sid) ==
    /\ FreeRun(r)
    /\ \E raises \in BOOLEAN :
          RunEnters(r, sid,
                    [runs[r] EXCEPT !.caller = "direct", !.session_id = sid],
                    raises)

\* A stage is called on its own, with max_retries given.
StageCallDirect(r, stage, max_retries) ==
    /\ FreeRun(r)
    /\ runs' = [runs EXCEPT ![r] =
                  IF stage = 1
                  THEN evaluate([@ EXCEPT !.caller = "stage"], max_retries)
                  ELSE generate_feedback([@ EXCEPT !.caller = "stage"],
                                         Nil, max_retries)]
    /\ UNCHANGED <<sessions, feedback_store, logging, last, hist, relay>>

\* The agent call of the current attempt ends with `kind`; the loop body and,
\* when the stage returns, its caller run on to the next suspension.
AttemptEnd(r, kind) ==
    /\ runs[r].pc = "attempt"
    /\ LET a == retry_attempt(runs[r], kind)
       IN  IF a.ret = Nil
           THEN /\ runs' = [runs EXCEPT ![r] = a.run]
                /\ UNCHANGED <<sessions, feedback_store>>
           ELSE IF runs[r].caller = "stage"
           THEN /\ runs' = [runs EXCEPT ![r] = returned(a.run, a.ret)]
                /\ UNCHANGED <<sessions, feedback_store>>
           ELSE \E raises \in IF a.ret.status = "success" /\ a.run.stage = 1
                              THEN BOOLEAN ELSE {FALSE} :
                   LET out == run_evaluation_resume(sessions, feedback_store,
                                  a.run.session_id, a.run, a.ret, raises)
                   IN  /\ sessions' = out.sessions
                       /\ feedback_store' = out.feedback_store
                       /\ runs' = [runs EXCEPT ![r] = out.run]
    /\ UNCHANGED <<logging, last, hist, relay>>

\* The delay between two attempts is over.
SleepEnd(r) ==
    /\ runs[r].pc = "sleep"
    /\ runs' = [runs EXCEPT ![r] = retry_wake(@)]
    /\ UNCHANGED <<sessions, feedback_store, logging, last, hist, relay>>

\* ------------------------------------------------------- specifications

\* The session's life: creation, the tools, the relay's candidate entries, the
\* evaluate endpoint and pipeline runs, interleaved at suspension points.
Init == InitWith(TRUE)

Next ==
    \/ \E inp \in NarrowInputs : create_session(inp)
    \/ ToolGetNextQuestion(SID)
    \/ \E phase \in PhaseArgs : ToolSignalPhaseChange(SID, phase)
    \/ CandidateEntry(SID, <<"a">>)
    \/ ReadTranscript(SID)
    \/ \E r \in OneRun : evaluate_interview(SID, r)
    \/ GetFeedback(SID)
    \/ \E r \in OneRun : RunEvaluationStart(r)
    \/ \E r \in OneRun : RunEvaluationDirect(r, SID)
    \/ \E r \in OneRun, kind \in AttemptKinds : AttemptEnd(r, kind)
    \/ \E r \in OneRun : SleepEnd(r)

Spec == Init /\ [][Next]_vars

\* A stage called on its own with every max_retries up to the bound.
NextStage ==
    \/ \E r \in OneRun, stage \in {1, 2}, n \in 0..MaxRetriesArg :
          StageCallDirect(r, stage, n)
    \/ \E r \in OneRun, kind \in AttemptKinds : AttemptEnd(r, kind)
    \/ \E r \in OneRun : SleepEnd(r)

SpecStage == InitWith(FALSE) /\ [][NextStage]_vars

\* Session creation from every question source, and the question sequencer.
NextSeq ==
    \/ \E inp \in WideInputs : create_session(inp)
    \/ ToolGetNextQuestion(SID)
    \/ NextQuestion(SID)

SpecSeq == InitWith(TRUE) /\ [][NextSeq]_vars

\* Transcripts built entry by entry, then the derivation of their QA records.
NextQA ==
    \/ \E inp \in QAInputs : create_session(inp)
    \/ /\ last.op # "get_transcript_for_evaluation"
       /\ \E e \in EntryArgs : AddTranscriptEntry(SID, e)
    \/ ReadTranscript(SID)

SpecQA == InitWith(TRUE) /\ [][NextQA]_vars

\* The session of the relay specifications: one catalog question.
RelayInputs ==
    {[count |-> MinRequested, resume |-> <<>>, jd |-> "none", generated |-> 0,
      pool |-> Pool(1)]}

\* The phases the model signals in the relay specifications.
RelayPhases == {"questions", "closing", "complete"}

\* The outbound side of one relay connection: the model's events and phase
\* signals, the sends to the client, and the ends of both tasks.
NextRelay ==
    \/ \E inp \in RelayInputs : create_session(inp)
    \/ RelayConnect(SID)
    \/ HandlerResumes
    \/ HandlerAwaitRaises
    \/ ClientDisconnect
    \/ InboundDisconnected
    \/ \E phase \in RelayPhases : RelayTool(SID, phase)
    \/ \E event \in EventArgs : EventArrives(SID, event)
    \/ SendCompletes(SID)
    \/ SendRaises
    \/ StreamFails
    \/ StreamEnds
    \/ HandlerReturns

SpecRelay == InitWith(FALSE) /\ [][NextRelay]_vars

\* The events of the inbound specification: one without transcription and
\* one with the final fragment of the candidate's speech.
InboundEvents ==
    {[audio |-> 0, out |-> "none", inp |-> i] : i \in {"none", "final"}}

\* The inbound side of one relay connection: the client's frames and its
\* disconnect, with the outbound task running beside it.
NextInbound ==
    \/ \E inp \in RelayInputs : create_session(inp)
    \/ RelayConnect(SID)
    \/ HandlerResumes
    \/ HandlerAwaitRaises
    \/ \E kind \in FrameKinds : ClientFrame(SID, kind)
    \/ ClientDisconnect
    \/ InboundDisconnected
    \/ RelayTool(SID, "complete")
    \/ \E event \in InboundEvents : EventArrives(SID, event)
    \/ SendCompletes(SID)
    \/ SendRaises
    \/ StreamFails
    \/ StreamEnds
    \/ HandlerReturns

SpecInbound == InitWith(FALSE) /\ [][NextInbound]_vars

\* The relay under fair scheduling: a pending send returns or throws, a
\* closed connection is noticed by ws.receive(), the model event stream ends
\* once its request queue is closed, and asyncio.gather returns once both
\* tasks have ended.
RelayFairness ==
    /\ WF_vars(InboundDisconnected)
    /\ WF_vars(SendCompletes(SID) \/ SendRaises)
    /\ WF_vars(StreamEnds)
    /\ WF_vars(HandlerReturns)

SpecInboundFair == InitWith(FALSE) /\ [][NextInbound]_vars /\ RelayFairness

\* ---------------------------------------------------------------- claims

\* The position of a phase in greeting < questions < closing < complete.
PhaseRank(phase) ==
    CASE phase = "greeting" -> 0
      [] phase = "questions" -> 1
      [] phase = "closing" -> 2
      [] phase = "complete" -> 3

\* Run slot r is a run_evaluation coroutine (not a stage called on its own).
IsPipelineRun(run) == run.caller \in {"endpoint", "direct"}

\* This step is the return of run_evaluation in slot r.
ReturnsNow(r) ==
    /\ runs[r].pc # "returned"
    /\ runs'[r].pc = "returned"
    /\ IsPipelineRun(runs'[r])

\* This step is the call (or the start of the background task) of
\* run_evaluation in slot r.
EntersNow(r) ==
    /\ runs[r].pc \in {"idle", "scheduled"}
    /\ runs'[r].pc \notin {"idle", "scheduled"}
    /\ IsPipelineRun(runs'[r])

\* This step is a recorded call of `op`.
CallsNow(op) == last'.tick # last.tick /\ last'.op = op

\* n failed attempts in a row.
Failures(n) == [i \in 1..n |-> "failure"]

\* C1: every failing exit of run_evaluation after it has set status evaluating
\* leaves the session in status completed when it returns.
C1_FailingExitRevertsToCompleted ==
    [][\A r \in Runs :
         (/\ ReturnsNow(r)
          /\ runs'[r].result.status = "error"
          /\ runs'[r].entered_from \in {"completed", "evaluating"})
         => sessions'[runs'[r].session_id].status = "completed"]_vars

\* run_evaluation called directly, twice at most, at any moment of a
\* session's life: before and during the interview, once it is completed,
\* while another run is evaluating it, and after it was evaluated.
NextEntry ==
    \/ \E inp \in RelayInputs : create_session(inp)
    \/ ToolGetNextQuestion(SID)
    \/ \E phase \in {"questions", "complete"} : ToolSignalPhaseChange(SID, phase)
    \/ \E r \in Runs : RunEvaluationDirect(r, SID)
    \/ \E r \in Runs, kind \in AttemptKinds : AttemptEnd(r, kind)
    \/ \E r \in Runs : SleepEnd(r)

SpecEntry == InitWith(FALSE) /\ [][NextEntry]_vars

\* C2: run_evaluation on a session that is neither completed nor evaluating
\* returns the precondition error, invokes no stage and changes nothing; on a
\* completed or evaluating session it goes on: the status is evaluating, and
\* Stage 1 is called unless there is nothing to evaluate or building its
\* request throws.
C2_PreconditionGuardsEntry ==
    [][\A r \in Runs, sid \in DOMAIN sessions :
         (EntersNow(r) /\ runs'[r].session_id = sid)
         => IF sessions[sid].status \notin {"completed", "evaluating"}
            THEN /\ runs'[r].pc = "returned"
                 /\ runs'[r].result = ErrorResult("not completed")
                 /\ runs'[r].calls = 0
                 /\ sessions' = sessions
                 /\ feedback_store' = feedback_store
            ELSE /\ runs'[r].entered_from = sessions[sid].status
                 /\ feedback_store' = feedback_store
                 /\ IF get_transcript_for_evaluation(sessions, sid).data = <<>>
                    THEN /\ runs'[r].pc = "returned"
                         /\ runs'[r].calls = 0
                         /\ runs'[r].result =
                               ErrorResult("No transcript data found")
                         /\ sessions'[sid].status = "evaluating"
                    ELSE \/ /\ runs'[r].pc = "attempt"
                            /\ runs'[r].stage = 1
                            /\ runs'[r].calls = 1
                            /\ sessions'[sid].status = "evaluating"
                         \/ /\ runs'[r].pc = "returned"
                            /\ runs'[r].calls = 0
                            /\ runs'[r].result = ErrorResult("Pipeline error")]_vars

\* C2 witness: a run evaluated the session and stored its report; a second
\* call of run_evaluation, entered from status evaluated, has returned the
\* precondition error without calling a stage, and the session is still
\* evaluated.
C2_Witness ==
    /\ runs[1].pc = "returned"
    /\ runs[1].entered_from = "completed"
    /\ runs[1].result.status = "success"
    /\ runs[2].pc = "returned"
    /\ runs[2].entered_from = "evaluated"
    /\ runs[2].result = ErrorResult("not completed")
    /\ runs[2].calls = 0
    /\ sessions[SID].status = "evaluated"
    /\ feedback_store[SID] = runs[1].result

\* C2, the re-entry: run_evaluation was called while another run was
\* evaluating the session, entered from status evaluating, and is in Stage 1.
C2_ReentryFromEvaluating ==
    /\ runs[1].pc = "attempt"
    /\ runs[1].entered_from = "completed"
    /\ runs[2].pc = "attempt"
    /\ runs[2].entered_from = "evaluating"
    /\ runs[2].stage = 1
    /\ sessions[SID].status = "evaluating"

\* C2, the rejections before the interview is over: run_evaluation was
\* called in status created and again in status in_progress.
C2_RejectedBeforeCompletion ==
    /\ runs[1].pc = "returned"
    /\ runs[1].entered_from = "created"
    /\ runs[1].result = ErrorResult("not completed")
    /\ runs[2].pc = "returned"
    /\ runs[2].entered_from = "in_progress"
    /\ runs[2].result = ErrorResult("not completed")
    /\ sessions[SID].status = "in_progress"

\* C3: a stage call with max_retries = N makes at most N+1 attempts, stops at
\* the first success (k attempts, k-1 delays, status success) and, when all
\* N+1 attempts fail, has slept N times and returns status error.
C3_BoundedRetry ==
    \A r \in Runs :
        LET run == runs[r]
            n == run.max_retries
            k == run.calls
        IN  run.caller = "stage" =>
            /\ k <= n + 1
            /\ \A i \in 1..Len(run.log) : i < Len(run.log) => run.log[i] = "failure"
            /\ run.pc = "returned" =>
                  \/ /\ run.result.status = "success"
                     /\ run.log = Append(Failures(k - 1), "success")
                     /\ run.delays = k - 1
                  \/ /\ run.result.status = "error"
                     /\ run.log = Failures(n + 1)
                     /\ k = n + 1
                     /\ run.delays = n
            /\ run.pc # "returned" => run.log = Failures(Len(run.log))

\* C3 witness: max_retries = 2, two failures, then a success on attempt 3.
C3_Witness ==
    /\ runs[1].caller = "stage"
    /\ runs[1].pc = "returned"
    /\ runs[1].max_retries = 2
    /\ runs[1].log = <<"failure", "failure", "success">>
    /\ runs[1].calls = 3
    /\ runs[1].delays = 2
    /\ runs[1].result.status = "success"

\* C4: when a stage exhausts its retries, run_evaluation stores nothing, sets
\* status completed and returns an error; after Stage 1 exhausts them, Stage 2
\* is never invoked.
C4_ExhaustedStageReverts ==
    [][\A r \in Runs :
         (ReturnsNow(r) /\ runs'[r].log = Failures(DefaultMaxRetries + 1))
         => /\ runs'[r].result.status = "error"
            /\ sessions'[SID].status = "completed"
            /\ feedback_store' = feedback_store
            /\ runs'[r].stage = runs[r].stage
            /\ runs[r].stage = 1 => runs'[r].eval_result = Nil]_vars

\* C4 witness: Stage 2 has exhausted its retries after Stage 1 succeeded; the
\* run returned an error, nothing is stored, the status is completed.
C4_Witness ==
    /\ runs[1].pc = "returned"
    /\ IsPipelineRun(runs[1])
    /\ runs[1].stage = 2
    /\ runs[1].log = Failures(DefaultMaxRetries + 1)
    /\ runs[1].result.status = "error"
    /\ feedback_store = <<>>
    /\ sessions[SID].status = "completed"

\* C5: when both stages succeed, run_evaluation returns with status evaluated
\* and the stored feedback is the Stage 2 result, the only stored artifact.
C5_SuccessStoresStage2Result ==
    [][\A r \in Runs :
         (ReturnsNow(r) /\ runs'[r].result.status = "success")
         => /\ sessions'[SID].status = "evaluated"
            /\ DOMAIN feedback_store' = {SID}
            /\ feedback_store'[SID] = runs'[r].result
            /\ feedback_store'[SID].stage = 2
            /\ runs'[r].eval_result.stage = 1]_vars

\* C5 witness: a run has returned its Stage 2 result, which is the stored
\* feedback of the evaluated session.
C5_Witness ==
    /\ runs[1].pc = "returned"
    /\ IsPipelineRun(runs[1])
    /\ runs[1].result.status = "success"
    /\ sessions[SID].status = "evaluated"
    /\ feedback_store[SID] = runs[1].result

\* C6: the phase of a session never moves backward in
\* greeting < questions < closing < complete.
C6_PhaseForwardOnly ==
    [][\A sid \in DOMAIN sessions :
         PhaseRank(sessions'[sid].phase) >= PhaseRank(sessions[sid].phase)]_vars

\* C7: signal_phase_change with a string that names no phase returns
\* success = false and leaves the session as it is.
C7_InvalidPhaseRejected ==
    [][(CallsNow("signal_phase_change") /\ last'.arg \notin InterviewPhase)
         => /\ last'.ret.success = FALSE
            /\ sessions' = sessions
            /\ feedback_store' = feedback_store]_vars

\* C7 witness: the bogus phase was rejected on a session in its questions phase.
C7_Witness ==
    /\ last.op = "signal_phase_change"
    /\ last.arg = "bogus"
    /\ last.ret.success = FALSE
    /\ SID \in DOMAIN sessions
    /\ sessions[SID].phase = "questions"
    /\ sessions[SID].status = "in_progress"

\* C8: a successful update_phase(questions) leaves status in_progress, a
\* successful update_phase(complete) leaves status completed with the
\* completion time set, and update_phase(greeting / closing) changes the
\* phase only.
C8_PhaseDrivesStatus ==
    [][(CallsNow("signal_phase_change") /\ last'.ret.success)
         => LET old == sessions[SID]
                new == sessions'[SID]
            IN  /\ new.phase = last'.arg
                /\ last'.arg = "questions" =>
                      (new.status = "in_progress" /\ new.completed_at = old.completed_at)
                /\ last'.arg = "complete" =>
                      (new.status = "completed" /\ new.completed_at # None)
                /\ last'.arg \in {"greeting", "closing"} =>
                      (new.status = old.status /\ new.completed_at = old.completed_at)
                /\ new.transcript = old.transcript
                /\ new.current_question_index = old.current_question_index]_vars

\* C8 witness: update_phase(closing) was applied after the session completed:
\* the status and the completion time stayed.
C8_Witness ==
    /\ last.op = "signal_phase_change"
    /\ last.arg = "closing"
    /\ last.ret.success
    /\ sessions[SID].phase = "closing"
    /\ sessions[SID].status = "completed"
    /\ sessions[SID].completed_at = "stamped"

\* C9: the status becomes evaluating only from completed, and evaluated only
\* from evaluating, whatever phase transitions interleave with a pipeline run.
C9_EvaluationOnlyFromCompleted ==
    [][\A sid \in DOMAIN sessions :
         LET old == sessions[sid].status
             new == sessions'[sid].status
         IN  /\ (new = "evaluating" /\ old # "evaluating") => old = "completed"
             /\ (new = "evaluated" /\ old # "evaluated") => old = "evaluating"]_vars

\* C10: the number of next_question calls that return a question is never more
\* than min(requested count, resolved count), and is exactly that once a call
\* has returned none.
C10_ServedIsMinRequestedResolved ==
    \A sid \in DOMAIN sessions :
        LET limit == Min(sessions[sid].question_count, hist.resolved)
        IN  /\ hist.served <= limit
            /\ (last.op = "get_next_question" /\ ~last.ret.has_question)
                  => hist.served = limit

\* C11: the k-th next_question call that returns a question returns element
\* k-1 of the question list and advances the cursor by one; once a call has
\* returned none, every later call returns none and leaves the cursor as it is.
C11_SequencerInOrderThenExhausted ==
    [][(CallsNow("next_question") /\ SID \in DOMAIN sessions) =>
         LET old == sessions[SID]
             new == sessions'[SID]
             k == hist'.served
         IN  IF last'.ret # Nil
             THEN /\ ~hist.exhausted
                  /\ k = hist.served + 1
                  /\ k <= Len(old.questions)
                  /\ last'.ret = old.questions[k]
                  /\ new.current_question_index = old.current_question_index + 1
                  /\ new.current_question_index = k
             ELSE /\ sessions' = sessions
                  /\ old.current_question_index >= Len(old.questions)]_vars

\* C11 witness: a session with three questions has handed out all three, the
\* third by the last but one call, and a call after the first none returned
\* none again.
C11_Witness ==
    /\ last.op = "next_question"
    /\ last.ret = Nil
    /\ hist.exhausted
    /\ hist.served = 3
    /\ SID \in DOMAIN sessions
    /\ Len(sessions[SID].questions) = 3
    /\ sessions[SID].current_question_index = 3

\* C12: the tool get_next_question, when the sequencer returns a question,
\* appends exactly one interviewer entry with that question's text and id;
\* when the sequencer is exhausted it returns has_question = false and changes
\* nothing.
C12_ToolRecordsQuestion ==
    [][(CallsNow("get_next_question") /\ SID \in DOMAIN sessions) =>
         LET old == sessions[SID]
             new == sessions'[SID]
         IN  /\ last'.ret.has_question
                   <=> old.current_question_index < Len(old.questions)
             /\ feedback_store' = feedback_store
             /\ IF last'.ret.has_question
                THEN LET q == old.questions[old.current_question_index + 1]
                     IN  /\ new.transcript =
                               Append(old.transcript,
                                      [role |-> "interviewer", text |-> q.question,
                                       question_id |-> q.id])
                         /\ last'.ret.question = q.question
                         /\ new.current_question_index =
                               old.current_question_index + 1
                         /\ new.phase = old.phase
                         /\ new.status = old.status
                         /\ new.questions = old.questions
                ELSE sessions' = sessions]_vars

\* C12 witness: in the closing phase of a completed session the tool has
\* found the sequencer exhausted, after it had recorded the one question.
C12_Witness ==
    /\ last.op = "get_next_question"
    /\ ~last.ret.has_question
    /\ SID \in DOMAIN sessions
    /\ sessions[SID].phase = "closing"
    /\ sessions[SID].status = "completed"
    /\ sessions[SID].current_question_index = 1
    /\ \E i \in 1..Len(sessions[SID].transcript) :
          sessions[SID].transcript[i] =
              [role |-> "interviewer",
               text |-> sessions[SID].questions[1].question,
               question_id |-> sessions[SID].questions[1].id]

\* An entry that opens a QA record: an interviewer entry with a question id.
OpensRecord(e) == e.role = "interviewer" /\ e.question_id \notin {NoId, <<"">>}

\* The positions of the record-opening entries of transcript t, ascending.
RECURSIVE Openers(_, _)
Openers(t, i) ==
    IF i > Len(t) THEN <<>>
    ELSE (IF OpensRecord(t[i]) THEN <<i>> ELSE <<>>) \o Openers(t, i + 1)

\* The texts of the candidate entries of t strictly between positions lo and hi.
RECURSIVE CandidateTexts(_, _, _)
CandidateTexts(t, lo, hi) ==
    IF lo + 1 >= hi THEN <<>>
    ELSE (IF t[lo + 1].role = "candidate" THEN <<t[lo + 1].text>> ELSE <<>>)
         \o CandidateTexts(t, lo + 1, hi)

\* The first n texts joined by single spaces, built from the left.
RECURSIVE SpaceJoined(_, _)
SpaceJoined(texts, n) ==
    IF n = 0 THEN <<>>
    ELSE IF n = 1 THEN texts[1]
    ELSE SpaceJoined(texts, n - 1) \o <<" ">> \o texts[n]

\* The (question id, question text, answer) triples the records of t must be.
ExpectedRecords(t) ==
    LET at == Openers(t, 1)
    IN  [k \in 1..Len(at) |->
            LET hi == IF k < Len(at) THEN at[k + 1] ELSE Len(t) + 1
                texts == CandidateTexts(t, at[k], hi)
            IN  [question_id |-> t[at[k]].question_id,
                 question |-> t[at[k]].text,
                 answer |-> SpaceJoined(texts, Len(texts))]]

\* The (question id, question text, answer) triples of derived records.
Triples(data) ==
    [k \in 1..Len(data) |->
        [question_id |-> data[k].question_id, question |-> data[k].question,
         answer |-> data[k].answer]]

\* The transcript Q1, a, b, Q2, c.
ExampleTranscript ==
    <<[role |-> "interviewer", text |-> <<"B", 1>>, question_id |-> <<"bank", 1>>],
      [role |-> "candidate", text |-> <<"a">>, question_id |-> NoId],
      [role |-> "candidate", text |-> <<"b">>, question_id |-> NoId],
      [role |-> "interviewer", text |-> <<"B", 2>>, question_id |-> <<"bank", 2>>],
      [role |-> "candidate", text |-> <<"c">>, question_id |-> NoId]>>

\* C13: get_transcript_for_evaluation returns one QA record per interviewer
\* entry with a question id, in transcript order, whose answer is the
\* space-joined texts of the candidate entries between that entry and the
\* next such entry; for the transcript Q1, a, b, Q2, c the records are
\* (Q1, "a b") and (Q2, "c").
C13_RecordsPerQuestionEntry ==
    last.op = "get_transcript_for_evaluation" =>
        /\ last.ret.found
        /\ Triples(last.ret.data) = ExpectedRecords(last.arg)
        /\ last.arg = ExampleTranscript =>
              Triples(last.ret.data) =
                  <<[question_id |-> <<"bank", 1>>, question |-> <<"B", 1>>,
                     answer |-> <<"a", " ", "b">>],
                    [question_id |-> <<"bank", 2>>, question |-> <<"B", 2>>,
                     answer |-> <<"c">>]>>

\* C13 witness: the records of the transcript Q1, a, b, Q2, c have been derived.
C13_Witness ==
    /\ last.op = "get_transcript_for_evaluation"
    /\ last.arg = ExampleTranscript
    /\ Len(last.ret.data) = 2
    /\ last.ret.data[1].answer = <<"a", " ", "b">>
    /\ last.ret.data[2].answer = <<"c">>

\* Transcript t without the entries before its first record-opening entry.
WithoutLeading(t) ==
    LET at == Openers(t, 1)
    IN  IF at = <<>> THEN <<>> ELSE SubSeq(t, at[1], Len(t))

\* The number of candidate entries before the first record-opening entry.
LeadingCandidates(t) ==
    LET at == Openers(t, 1)
        stop == IF at = <<>> THEN Len(t) + 1 ELSE at[1]
    IN  Cardinality({i \in 1..(stop - 1) : t[i].role = "candidate"})

\* C14: candidate entries before the first interviewer entry with a question
\* id appear in no QA record: the records are those of the transcript with
\* these entries removed, and there is no record when no question was asked.
C14_LeadingAnswersDiscarded ==
    last.op = "get_transcript_for_evaluation" =>
        LET t == last.arg
            stripped == [sessions EXCEPT ![SID].transcript = WithoutLeading(t)]
        IN  /\ last.ret.data = get_transcript_for_evaluation(stripped, SID).data
            /\ Openers(t, 1) = <<>> => last.ret.data = <<>>
            /\ Len(last.ret.data) = Len(Openers(t, 1))

\* C14 witness: the candidate spoke twice before the first question and once
\* after it; the one record holds the later text only.
C14_Witness ==
    /\ last.op = "get_transcript_for_evaluation"
    /\ LeadingCandidates(last.arg) = 2
    /\ Len(last.ret.data) = 1
    /\ last.arg[Len(last.arg)].role = "candidate"
    /\ last.ret.data[1].answer = last.arg[Len(last.arg)].text
    /\ Len(last.arg) = 4

\* C15: get_transcript_for_evaluation is a pure read: in every phase and
\* status it returns the records of the transcript as it is, leaves the
\* session and the stored feedback unchanged, and returns the same records as
\* the call before it when no entry was appended in between.
C15_ReadIsPure ==
    [][CallsNow("get_transcript_for_evaluation") =>
         /\ sessions' = sessions
         /\ feedback_store' = feedback_store
         /\ last'.arg = sessions[SID].transcript
         /\ last'.ret.found
         /\ Triples(last'.ret.data) = ExpectedRecords(sessions[SID].transcript)
         /\ (last.op = "get_transcript_for_evaluation" /\ last.arg = last'.arg)
               => last'.ret = last.ret]_vars

\* C15 witness: the records were derived, with an answer in them, from a
\* session that had already been evaluated and sent back to its questions phase.
C15_Witness ==
    /\ last.op = "get_transcript_for_evaluation"
    /\ SID \in DOMAIN feedback_store
    /\ sessions[SID].status = "in_progress"
    /\ sessions[SID].phase = "questions"
    /\ last.arg = sessions[SID].transcript
    /\ Len(last.ret.data) = 1
    /\ last.ret.data[1].answer = <<"a">>

\* The messages sent to the client in this step.
SentNow == SubSeq(relay'.sent, Len(relay.sent) + 1, Len(relay'.sent))

\* The positions of the final transcript messages of `role` in sent.
Finals(sent, role) ==
    {i \in 1..Len(sent) : /\ sent[i].type = "transcript"
                          /\ sent[i].is_final
                          /\ sent[i].role = role}

\* The number of error messages in sent.
Errors(sent) == Cardinality({i \in 1..Len(sent) : sent[i].type = "error"})

\* C16: interview_complete is sent only after the phase message complete and
\* after every message of the model event during whose processing the phase
\* was found complete, and only while the session phase is complete.
C16_CompleteAfterPhaseAndTranscripts ==
    [][\A i \in 1..Len(SentNow) :
         SentNow[i].type = "interview_complete" =>
             LET n == Len(relay'.sent)
                 ev == relay'.sent[n].ev
             IN  /\ Len(SentNow) = 1
                 /\ sessions[SID].phase = "complete"
                 /\ sessions'[SID].phase = "complete"
                 /\ n > 1
                 /\ relay'.sent[n - 1] = PhaseMsg("complete", ev)
                 /\ ev = Len(relay'.events)
                 /\ \A j \in 1..n :
                       (relay'.sent[j].ev = ev /\ relay'.sent[j].type = "transcript")
                          => j < n - 1
                 /\ relay'.outbound = "done"]_vars

\* C16 witness: the event that carried the candidate's final fragment found
\* the phase complete: transcript, phase complete, interview_complete.
C16_Witness ==
    LET n == Len(relay.sent)
    IN  /\ n >= 5
        /\ relay.sent[n].type = "interview_complete"
        /\ relay.sent[n - 1] = PhaseMsg("complete", relay.sent[n].ev)
        /\ relay.sent[n - 2] = TranscriptMsg("user", <<"u", relay.sent[n].ev>>,
                                             TRUE, relay.sent[n].ev)
        /\ relay.outbound = "done"

\* C17: between two final transcript messages of one role there is a final
\* transcript message of the other role, so a repeated final fragment of a
\* role is not forwarded.
C17_FinalsAlternate ==
    \A role \in {"agent", "user"} :
        \A i, j \in Finals(relay.sent, role) :
            i < j => \E k \in Finals(relay.sent,
                                     IF role = "agent" THEN "user" ELSE "agent") :
                        i < k /\ k < j

\* C17 witness: two events in a row carried a final fragment of the agent;
\* both are processed and one final agent transcript was sent.
C17_Witness ==
    /\ Len(relay.events) = 2
    /\ relay.events[1].out = "final"
    /\ relay.events[2].out = "final"
    /\ relay.events[1].inp = "none"
    /\ relay.events[2].inp = "none"
    /\ relay.outbound = "await_event"
    /\ Cardinality(Finals(relay.sent, "agent")) = 1
    /\ relay.sent[Len(relay.sent)] = PhaseMsg(sessions[SID].phase, 2)

\* This step ends the outbound task by a failure of the model event stream.
StreamFailsNow ==
    /\ relay.outbound # "done"
    /\ relay'.outbound = "done"
    /\ relay'.failure.src = "stream"

\* C18: when the model event stream fails, the outbound task sends no error
\* message after a normal close and exactly one error message otherwise, sends
\* nothing after that, and the client gets at most one error message.
C18_OneErrorUnlessNormalClose ==
    [][/\ (StreamFailsNow /\ relay.client = "open") =>
             IF relay'.failure.normal THEN SentNow = <<>>
             ELSE SentNow = <<ErrorMsg(Len(relay.events))>>
       /\ relay.outbound = "done" => relay'.sent = relay.sent
       /\ Errors(relay'.sent) <= 1]_vars

\* C19: when the inbound task has stopped the request queue is closed, and
\* after a client disconnect the outbound task ends and the handler returns.
C19_DisconnectEndsRelay ==
    /\ [](relay.inbound = "done" => relay.queue_closed)
    /\ (relay.queue_closed /\ relay.handler = "running")
           ~> (relay.outbound = "done")
    /\ (relay.client = "gone" /\ relay.handler = "running")
           ~> (relay.handler = "returned")

\* C19 witness: the client has gone, the inbound task closed the queue, the
\* event stream ended without a failure and the handler has returned.
C19_Witness ==
    /\ relay.client = "gone"
    /\ relay.inbound = "done"
    /\ relay.queue_closed
    /\ relay.outbound = "done"
    /\ relay.failure = NoFailure
    /\ relay.handler = "returned"
    /\ Len(relay.events) > 0

\* C20: a malformed frame (text that is not JSON, a text_input without text)
\* is ignored: the inbound task goes on reading, the request queue stays open
\* and the session is unchanged.
C20_MalformedFrameIgnored ==
    [][(/\ Len(relay'.frames) = Len(relay.frames) + 1
        /\ relay'.frames[Len(relay'.frames)] \in MalformedFrames)
         => /\ relay'.inbound = "receiving"
            /\ ~relay'.queue_closed
            /\ sessions' = sessions]_vars

\* C21: the evaluate endpoint schedules a run only when the status is
\* completed and otherwise rejects the request without scheduling or changing
\* anything; the feedback endpoint returns the stored report only when the
\* status is evaluated, the placeholder when it is evaluating, and an error
\* in every other status.
C21_EndpointsGuardByStatus ==
    [][/\ CallsNow("evaluate_interview") =>
             /\ sessions' = sessions
             /\ feedback_store' = feedback_store
             /\ IF SID \in DOMAIN sessions /\ sessions[SID].status = "completed"
                THEN /\ last'.ret.status_code = 200
                     /\ \E r \in Runs :
                           /\ runs[r].pc = "idle"
                           /\ runs'[r].pc = "scheduled"
                           /\ runs'[r].session_id = SID
                           /\ \A q \in Runs \ {r} : runs'[q] = runs[q]
                ELSE /\ last'.ret.status_code \in {400, 404}
                     /\ last'.ret.status_code = 404 <=> SID \notin DOMAIN sessions
                     /\ runs' = runs
       /\ CallsNow("get_feedback") =>
             /\ UNCHANGED <<sessions, feedback_store, runs>>
             /\ IF SID \notin DOMAIN sessions THEN last'.ret.code = 404
                ELSE LET status == sessions[SID].status
                     IN  /\ last'.ret.kind = "report" =>
                               (/\ status = "evaluated"
                                /\ last'.ret.code = 200
                                /\ last'.ret.body = feedback_store[SID])
                         /\ status = "evaluating" =>
                               (last'.ret.code = 200 /\ last'.ret.kind = "evaluating")
                         /\ status \notin {"evaluating", "evaluated"} =>
                               last'.ret.code = 400
                         /\ status = "evaluated" =>
                               last'.ret.kind \in {"report", "feedback_not_found"}]_vars

\* C21 witness: with a report stored and the session back in progress, the
\* feedback endpoint has answered with an error.
C21_Witness ==
    /\ last.op = "get_feedback"
    /\ last.ret.code = 400
    /\ SID \in DOMAIN feedback_store
    /\ sessions[SID].status = "in_progress"

\* C21, second witness state: the evaluate endpoint has rejected a request
\* for a session that is being evaluated.
C21_RejectedWhileEvaluating ==
    /\ last.op = "evaluate_interview"
    /\ last.ret.status_code = 400
    /\ sessions[SID].status = "evaluating"
    /\ runs[1].pc = "attempt"

\* The create_session inputs for which no source resolves a question: no
\* usable cached resume question, no generated question, an empty catalog.
ZeroInputs ==
    {inp \in WideInputs :
        /\ \A i \in 1..Len(inp.resume) : ~inp.resume[i].ok
        /\ inp.jd # "ok" \/ inp.generated = 0
        /\ inp.pool = <<>>}

\* C22: when no source resolves a question, create_session can still be
\* called and registers a session with an empty question list, status
\* created, phase greeting and cursor 0; a next_question call on a session
\* with an empty list returns none and moves nothing.
C22_EmptySessionCreated ==
    /\ [](SID \notin DOMAIN sessions =>
             \A inp \in ZeroInputs : ENABLED create_session(inp))
    /\ [][/\ (CallsNow("create_session") /\ hist'.source = "bank"
                                           /\ hist'.resolved = 0) =>
                /\ DOMAIN sessions' = {SID}
                /\ sessions'[SID].questions = <<>>
                /\ sessions'[SID].status = "created"
                /\ sessions'[SID].phase = "greeting"
                /\ sessions'[SID].current_question_index = 0
          /\ (/\ CallsNow("next_question")
              /\ SID \in DOMAIN sessions
              /\ sessions[SID].questions = <<>>) =>
                /\ last'.ret = Nil
                /\ sessions' = sessions]_vars

\* C22 witness: the first next_question call on a session created with no
\* question has returned none.
C22_Witness ==
    /\ last.op = "next_question"
    /\ last.ret = Nil
    /\ hist.source = "bank" /\ hist.resolved = 0
    /\ hist.served = 0
    /\ sessions[SID].questions = <<>>
    /\ sessions[SID].status = "created"
    /\ sessions[SID].phase = "greeting"
    /\ sessions[SID].current_question_index = 0

\* Two pipeline runs on one session, requested once the interview is over:
\* the endpoint schedules them, and they interleave at their suspension points.
NextRuns ==
    \/ \E inp \in RelayInputs : create_session(inp)
    \/ (\A r \in Runs : runs[r].pc = "idle") /\ ToolGetNextQuestion(SID)
    \/ (\A r \in Runs : runs[r].pc = "idle")
          /\ ToolSignalPhaseChange(SID, "complete")
    \/ \E r \in Runs : evaluate_interview(SID, r)
    \/ \E r \in Runs : RunEvaluationStart(r)
    \/ \E r \in Runs, kind \in AttemptKinds : AttemptEnd(r, kind)
    \/ \E r \in Runs : SleepEnd(r)

SpecRuns == InitWith(FALSE) /\ [][NextRuns]_vars

\* Run r ends in this step with both stages successful.
CompletesNow(r) ==
    /\ runs[r].pc = "attempt" /\ runs[r].stage = 2
    /\ runs'[r].pc = "returned"
    /\ runs'[r].result.status = "success"

\* C23: the feedback store changes only in the step in which a run ends with
\* both stages successful, and once the status is evaluated and a report is
\* stored, every step that is not such an end leaves the status evaluated and
\* the report as it is.
C23_ReportStableUntilRerun ==
    [][/\ feedback_store' # feedback_store =>
             \E r \in Runs : CompletesNow(r) /\ feedback_store'[SID] = runs'[r].result
       /\ (/\ SID \in DOMAIN feedback_store
           /\ sessions[SID].status = "evaluated"
           /\ ~\E r \in Runs : CompletesNow(r)) =>
             /\ sessions'[SID].status = "evaluated"
             /\ feedback_store' = feedback_store]_vars

\* C23, the state the failing run leaves: a report is stored, the run that
\* stored it has returned it, the other run has returned an error, and the
\* status is completed.
C23_CompletedOverEvaluated ==
    /\ SID \in DOMAIN feedback_store
    /\ sessions[SID].status = "completed"
    /\ runs[1].pc = "returned" /\ runs[1].result = feedback_store[SID]
    /\ runs[2].pc = "returned" /\ runs[2].result.status = "error"

\* A model that signals phases in any order.
in_any_order(ss, sid, phase) == sid \in DOMAIN ss

\* The interview flow of the conductor instruction: questions after the
\* greeting, closing after the questions, complete after the closing, each
\* signalled at most once.
in_prescribed_order(ss, sid, phase) ==
    sid \in DOMAIN ss /\ PhaseRank(phase) > PhaseRank(ss[sid].phase)

\* The model signals a phase as the conductor instruction prescribes.
ConductorTool(sid, phase) ==
    /\ in_prescribed_order(sessions, sid, phase)
    /\ RelayTool(sid, phase)

\* One relay connection whose model follows the conductor instruction.
NextConductor ==
    \/ \E inp \in RelayInputs : create_session(inp)
    \/ RelayConnect(SID)
    \/ HandlerResumes
    \/ HandlerAwaitRaises
    \/ ClientDisconnect
    \/ InboundDisconnected
    \/ \E phase \in RelayPhases : ConductorTool(SID, phase)
    \/ \E event \in EventArgs : EventArrives(SID, event)
    \/ SendCompletes(SID)
    \/ SendRaises
    \/ StreamFails
    \/ StreamEnds
    \/ HandlerReturns

SpecConductor == InitWith(FALSE) /\ [][NextConductor]_vars

\* The positions of the phase messages among the messages sent.
PhaseMsgs == {i \in 1..Len(relay.sent) : relay.sent[i].type = "phase"}

\* C24: when the model signals phases in the prescribed order, the phase
\* messages sent on the connection start with greeting and never name an
\* earlier phase than a phase message sent before.
C24_ClientPhasesNonDecreasing ==
    /\ relay.sent # <<>> => relay.sent[1] = PhaseMsg("greeting", 0)
    /\ \A i, j \in PhaseMsgs :
          i < j => PhaseRank(relay.sent[i].phase) <= PhaseRank(relay.sent[j].phase)

\* C24 witness: the client has been sent greeting, then questions after the
\* first event, then closing after the second.
C24_Witness ==
    \E i, j, k \in PhaseMsgs :
        /\ i < j /\ j < k
        /\ relay.sent[i].phase = "greeting"
        /\ relay.sent[j].phase = "questions"
        /\ relay.sent[k].phase = "closing"

\* interview_complete has been sent on the connection.
CompleteSent == \E i \in 1..Len(relay.sent) : relay.sent[i].type = "interview_complete"

\* C25: once the outbound task has sent interview_complete, the relay handler
\* returns, whatever the client does.
C25_CompleteEndsRelay == CompleteSent ~> relay.handler = "returned"

\* C25, the state the relay rests in: interview_complete is the last message
\* sent and the outbound task has ended, while the client is connected, the
\* inbound task waits for a frame, the request queue is open and the handler
\* waits for both tasks.
C25_RelayWaitsForClient ==
    /\ CompleteSent
    /\ relay.sent[Len(relay.sent)].type = "interview_complete"
    /\ relay.outbound = "done"
    /\ relay.client = "open"
    /\ relay.inbound = "receiving"
    /\ ~relay.queue_closed
    /\ relay.handler = "running"

\* C25, what does hold: interview_complete is sent at most once, after the
\* complete phase message of the same event, and nothing is sent after it.
C25_CompleteSentOnceAndLast ==
    \A i \in 1..Len(relay.sent) :
        relay.sent[i].type = "interview_complete" =>
            /\ i = Len(relay.sent)
            /\ relay.sent[i - 1] = PhaseMsg("complete", relay.sent[i].ev)

\* A final transcript message of the candidate's speech.
IsFinalUser(m) == m.type = "transcript" /\ m.role = "user" /\ m.is_final

\* A transcript entry of the candidate.
IsCandidate(e) == e.role = "candidate"

\* The texts of a sequence of messages or entries, in order.
TextsOf(seq) == [i \in 1..Len(seq) |-> seq[i].text]

\* C26: on a connection whose client sends no text, the candidate entries of
\* the transcript are, in order and text for text, the final user transcript
\* messages sent so far: one entry per final message sent, none for anything
\* else.
C26_EntryPerFinalUserMessage ==
    SID \in DOMAIN sessions =>
        TextsOf(SelectSeq(sessions[SID].transcript, IsCandidate))
            = TextsOf(SelectSeq(relay.sent, IsFinalUser))

\* C26 witness: the first event carried an interim agent fragment and the
\* candidate's final fragment, the second the candidate's final fragment
\* again; both were handled, the agent fragment and one final user message
\* were sent, and the transcript holds the one entry.
C26_Witness ==
    /\ Len(relay.events) = 2
    /\ relay.events[1].out = "interim" /\ relay.events[1].inp = "final"
    /\ relay.events[2].out = "none" /\ relay.events[2].inp = "final"
    /\ relay.outbound = "await_event"
    /\ \E i \in 1..Len(relay.sent) :
          relay.sent[i].type = "transcript" /\ relay.sent[i].role = "agent"
    /\ TextsOf(SelectSeq(relay.sent, IsFinalUser)) = << <<"u", 1>> >>
    /\ TextsOf(sessions[SID].transcript) = << <<"u", 1>> >>

\* C26, second witness state: an interim fragment of the candidate's speech
\* was sent and nothing was recorded.
C26_InterimNotRecorded ==
    /\ Len(relay.events) = 1
    /\ relay.events[1].inp = "interim"
    /\ relay.outbound = "await_event"
    /\ \E i \in 1..Len(relay.sent) :
          relay.sent[i].type = "transcript" /\ relay.sent[i].role = "user"
    /\ sessions[SID].transcript = <<>>

\* The inbound task has handled a frame in this step; FrameNow is its kind.
FrameHandled == Len(relay'.frames) = Len(relay.frames) + 1
FrameNow == relay'.frames[Len(relay'.frames)]

\* C27: a text_input frame appends one candidate entry with the frame's text
\* and forwards one text turn to the model; a binary frame forwards one
\* realtime input and appends nothing; a well-formed frame of another type
\* forwards and appends nothing; no step of the inbound task changes phase,
\* status or cursor.
C27_InboundFrameEffects ==
    [][/\ FrameHandled =>
             /\ FrameNow = "text_input" =>
                   /\ sessions'[SID].transcript =
                         Append(sessions[SID].transcript,
                                [role |-> "candidate",
                                 text |-> <<"t", Len(relay'.frames)>>,
                                 question_id |-> NoId])
                   /\ relay'.to_model = Append(relay.to_model, "content")
             /\ FrameNow = "bytes" =>
                   /\ sessions' = sessions
                   /\ relay'.to_model = Append(relay.to_model, "realtime")
             /\ FrameNow = "other" =>
                   /\ sessions' = sessions
                   /\ relay'.to_model = relay.to_model
                   /\ relay'.inbound = "receiving"
       /\ (FrameHandled \/ relay'.inbound # relay.inbound) =>
             \A sid \in DOMAIN sessions :
                /\ sessions'[sid].phase = sessions[sid].phase
                /\ sessions'[sid].status = sessions[sid].status
                /\ sessions'[sid].current_question_index
                     = sessions[sid].current_question_index]_vars

\* C27 witness: the client sent a frame of another type and then a
\* text_input; the model request queue holds the initial prompt and one text
\* turn, the transcript the one entry.
C27_Witness ==
    /\ relay.frames = <<"other", "text_input">>
    /\ relay.to_model = <<"content", "content">>
    /\ TextsOf(sessions[SID].transcript) = << <<"t", 2>> >>

\* C27, second witness state: a binary frame went to the model as realtime
\* input and nothing was recorded.
C27_AudioForwarded ==
    /\ relay.frames = <<"bytes">>
    /\ relay.to_model = <<"content", "realtime">>
    /\ sessions[SID].transcript = <<>>

\* The model calls get_next_question during the relay: tools run while the
\* outbound task waits for the next event of runner.run_live.
RelayQuestion(sid) ==
    /\ relay.outbound = "await_event"
    /\ ToolGetNextQuestion(sid)

\* One relay connection on a session with two questions: the client's
\* frames, the model's events and its get_next_question calls, interleaved.
NextAppend ==
    \/ \E inp \in QAInputs : create_session(inp)
    \/ RelayConnect(SID)
    \/ HandlerResumes
    \/ HandlerAwaitRaises
    \/ \E kind \in FrameKinds : ClientFrame(SID, kind)
    \/ ClientDisconnect
    \/ InboundDisconnected
    \/ RelayQuestion(SID)
    \/ \E event \in InboundEvents : EventArrives(SID, event)
    \/ SendCompletes(SID)
    \/ SendRaises
    \/ StreamFails
    \/ StreamEnds
    \/ HandlerReturns

SpecAppend == InitWith(FALSE) /\ [][NextAppend]_vars

\* The entries the step appends, one per append step executed in it: the
\* text_input frame handled, the final user message sent, the question the
\* tool handed out.
AppendedNow ==
    (IF FrameHandled /\ FrameNow = "text_input"
     THEN <<[role |-> "candidate", text |-> <<"t", Len(relay'.frames)>>,
             question_id |-> NoId]>>
     ELSE <<>>)
    \o (IF SelectSeq(SentNow, IsFinalUser) # <<>>
        THEN <<[role |-> "candidate",
                text |-> SelectSeq(SentNow, IsFinalUser)[1].text,
                question_id |-> NoId]>>
        ELSE <<>>)
    \o (IF hist'.served = hist.served + 1
        THEN <<[role |-> "interviewer",
                text |-> sessions[SID].questions[hist'.served].question,
                question_id |-> sessions[SID].questions[hist'.served].id]>>
        ELSE <<>>)

\* C28: every step leaves the entries the transcript holds where they are
\* and as they are, and puts the entries of the append steps executed in it,
\* and nothing else, at the end.
C28_TranscriptAppendOnly ==
    [][(SID \in DOMAIN sessions) =>
          (sessions'[SID].transcript = sessions[SID].transcript \o AppendedNow)]_vars

\* C28 witness: entries of the tool, the inbound task and the outbound task
\* stand in the transcript in the order they were appended in, the second
\* question last.
C28_Witness ==
    /\ SID \in DOMAIN sessions
    /\ Len(sessions[SID].transcript) = 4
    /\ sessions[SID].transcript[1].role = "interviewer"
    /\ sessions[SID].transcript[2].text = <<"t", 1>>
    /\ sessions[SID].transcript[3].text = <<"u", 1>>
    /\ sessions[SID].transcript[4].role = "interviewer"

\* The sessions of the criteria specification: two catalog questions in
\* either order, or two generated questions.
CriteriaInputs ==
    QAInputs
    \cup {[count |-> MinRequested, resume |-> <<>>, jd |-> "ok", generated |-> 2,
           pool |-> Pool(0)]}

\* The entries of the criteria specification: an answer, and interviewer
\* lines under the ids of the two catalog questions and under an id no
\* question carries; their text is not a question's text.
CriteriaEntries ==
    {[role |-> "candidate", text |-> <<"a">>, question_id |-> NoId]}
    \cup {[role |-> "interviewer", text |-> <<"asked">>,
           question_id |-> <<"bank", i>>] : i \in 1..3}

\* Transcripts under ids inside and outside the question list, then the
\* derivation of their QA records.
NextCriteria ==
    \/ \E inp \in CriteriaInputs : create_session(inp)
    \/ /\ last.op # "get_transcript_for_evaluation"
       /\ \E e \in CriteriaEntries : AddTranscriptEntry(SID, e)
    \/ ReadTranscript(SID)

SpecCriteria == InitWith(TRUE) /\ [][NextCriteria]_vars

\* The criteria of the question with the lowest position among those of
\* `questions` whose id is qid; the empty list when there is none.
FirstCriteria(questions, qid) ==
    LET at == {i \in 1..Len(questions) : questions[i].id = qid}
    IN  IF at = {} THEN <<>>
        ELSE questions[CHOOSE i \in at : \A j \in at : i <= j].evaluation_criteria

\* C29: the criteria of every derived QA record are those of the first
\* question of the session's list under the record's question id, and the
\* empty list when the list has no question under that id.
C29_CriteriaFromQuestionList ==
    last.op = "get_transcript_for_evaluation" =>
        \A k \in 1..Len(last.ret.data) :
            last.ret.data[k].evaluation_criteria =
                FirstCriteria(sessions[SID].questions, last.ret.data[k].question_id)

\* C29 witness: records were derived for the second question of the list,
\* with that question's criteria, and for an id no question carries, with no
\* criteria.
C29_Witness ==
    /\ last.op = "get_transcript_for_evaluation"
    /\ Len(last.ret.data) = 2
    /\ last.ret.data[1].question_id = sessions[SID].questions[2].id
    /\ last.ret.data[1].evaluation_criteria
         = sessions[SID].questions[2].evaluation_criteria
    /\ last.ret.data[1].evaluation_criteria
         # sessions[SID].questions[1].evaluation_criteria
    /\ last.ret.data[2].question_id = <<"bank", 3>>
    /\ last.ret.data[2].evaluation_criteria = <<>>

\* C30: whenever a pipeline run waits for the final response of a stage, a
\* response whose text does not parse makes the stage return status success
\* with the raw text; from Stage 1 the pipeline goes on to Stage 2 with it,
\* and from Stage 2, after a raw-text Stage 1 result, it sets status
\* evaluated, stores the raw-text result as feedback and returns it.
C30_RawTextIsSuccess ==
    \A r \in OneRun :
        (runs[r].pc = "attempt" /\ IsPipelineRun(runs[r])) =>
            LET sid == runs[r].session_id
                a == retry_attempt(runs[r], "raw_text")
                out == run_evaluation_resume(sessions, feedback_store, sid,
                                             a.run, a.ret, FALSE)
            IN  /\ a.ret # Nil
                /\ a.ret.status = "success"
                /\ a.ret.shape = "raw_text"
                /\ runs[r].stage = 1 =>
                      /\ out.run.pc = "attempt" /\ out.run.stage = 2
                      /\ out.run.eval_result = a.ret
                      /\ out.sessions = sessions
                      /\ out.feedback_store = feedback_store
                /\ (runs[r].stage = 2 /\ runs[r].eval_result.shape = "raw_text") =>
                      /\ out.sessions[sid].status = "evaluated"
                      /\ out.feedback_store[sid] = a.ret
                      /\ out.run.pc = "returned"
                      /\ out.run.result = a.ret

\* C30 witness: a run whose two stages both returned raw text at the first
\* attempt has returned; the status is evaluated and the raw-text Stage 2
\* result is the stored feedback.
C30_Witness ==
    /\ runs[1].pc = "returned"
    /\ runs[1].caller = "endpoint"
    /\ runs[1].log = <<"success">>
    /\ runs[1].eval_result # Nil
    /\ runs[1].eval_result.shape = "raw_text"
    /\ runs[1].result.status = "success"
    /\ runs[1].result.shape = "raw_text"
    /\ runs[1].result.stage = 2
    /\ sessions[SID].status = "evaluated"
    /\ feedback_store[SID] = runs[1].result

\* C31: whenever a stage call waits for the final response of an attempt that
\* is not its last, a response whose text does not parse is handled like an
\* exception: the attempt is logged as a failure and the call sleeps before
\* the next attempt.
C31_UnparsableIsRetried ==
    \A r \in OneRun :
        (runs[r].pc = "attempt" /\ runs[r].attempt < runs[r].max_retries) =>
            LET a == retry_attempt(runs[r], "raw_text")
            IN  /\ a.ret = Nil
                /\ a.run.pc = "sleep"
                /\ a.run.log = Append(runs[r].log, "failure")

\* C31, the state the code reaches: a stage called with retries left has
\* returned status success with the raw text after one call of the agent.
C31_ReturnedRawTextAtOnce ==
    /\ runs[1].pc = "returned"
    /\ runs[1].caller = "stage"
    /\ runs[1].max_retries > 0
    /\ runs[1].calls = 1
    /\ runs[1].delays = 0
    /\ runs[1].result.status = "success"
    /\ runs[1].result.shape = "raw_text"

\* Run r returns in this step because the last attempt of its stage failed.
ExhaustedNow(r) ==
    /\ ReturnsNow(r)
    /\ runs[r].pc = "attempt"
    /\ runs[r].attempt = runs[r].max_retries
    /\ runs'[r].result.status = "error"
    /\ runs'[r].log = Append(runs[r].log, "failure")

\* C32: when a pipeline run returns because the retries of a stage are
\* exhausted, the session's status is the status the run was entered from,
\* completed or evaluating.
C32_FailureRestoresEntryStatus ==
    [][\A r \in Runs :
         ExhaustedNow(r) =>
             sessions'[runs'[r].session_id].status = runs'[r].entered_from]_vars

\* C32, the state the code reaches: a run entered from evaluating has
\* exhausted the retries of Stage 1 and returned, the other run is still
\* waiting for a response, and the status is completed.
C32_CompletedAfterEnteredEvaluating ==
    /\ runs[2].pc = "returned"
    /\ runs[2].entered_from = "evaluating"
    /\ runs[2].result.status = "error"
    /\ runs[2].log = <<"failure", "failure", "failure">>
    /\ runs[1].pc = "attempt"
    /\ sessions[SID].status = "completed"

\* A further client connects to /ws/interview/{sid} while the session has, or
\* has had, a relay: the handler looks the session up and, as it exists,
\* accepts the connection as it did the first.
SecondConnect(sid) ==
    /\ get_session(sessions, sid) # Nil
    /\ relay.handler \in {"running", "returned"}
    /\ relay.other = "none"
    /\ relay.others < MaxOthers
    /\ relay' = [relay EXCEPT !.other = websocket_endpoint(sessions, sid).handler]
    /\ UNCHANGED <<sessions, feedback_store, runs, logging, last, hist>>

\* The handler of the further connection goes from one await to the next;
\* after the metadata its task pair starts, unless setting up its request
\* queue throws.  Its client may have gone at any await.
OtherHandlerStep ==
    /\ relay.other \in HandlerAwaits
    /\ \E raised \in BOOLEAN, fails \in BOOLEAN :
          LET on == handler_after(relay.other, raised, fails)
          IN  relay' = [relay EXCEPT
                          !.other = IF on \in HandlerAwaits THEN on ELSE "none",
                          !.others = IF on = "running" THEN @ + 1 ELSE @]
    /\ UNCHANGED <<sessions, feedback_store, runs, logging, last, hist>>

\* The model of a further connection calls its get_next_question tool.
OtherRelayQuestion(sid) ==
    /\ relay.others > 0
    /\ ToolGetNextQuestion(sid)

\* The client of a further connection disconnects and its handler returns.
OtherReturns ==
    /\ relay.others > 0
    /\ relay' = [relay EXCEPT !.others = @ - 1]
    /\ UNCHANGED <<sessions, feedback_store, runs, logging, last, hist>>

\* A session with a relay connection to which further clients connect.
NextSecond ==
    \/ \E inp \in RelayInputs : create_session(inp)
    \/ RelayConnect(SID)
    \/ HandlerResumes
    \/ HandlerAwaitRaises
    \/ SecondConnect(SID)
    \/ OtherHandlerStep
    \/ OtherRelayQuestion(SID)
    \/ OtherReturns
    \/ ClientDisconnect
    \/ InboundDisconnected
    \/ RelayTool(SID, "complete")
    \/ RelayQuestion(SID)
    \/ \E event \in InboundEvents : EventArrives(SID, event)
    \/ SendCompletes(SID)
    \/ SendRaises
    \/ StreamFails
    \/ StreamEnds
    \/ HandlerReturns

SpecSecond == InitWith(FALSE) /\ [][NextSecond]_vars

\* C33: a connection gets a running task pair only when the session has no
\* active relay and its phase is not complete.
C33_OneRelayPerSession ==
    [][relay'.others > relay.others =>
          /\ relay.handler # "running"
          /\ sessions[SID].phase # "complete"]_vars

\* C33, the state the code reaches: two task pairs are active at once, and
\* a get_next_question tool has advanced the cursor and appended to
\* the transcript.
C33_TwoRelaysActive ==
    /\ relay.handler = "running"
    /\ relay.inbound = "receiving"
    /\ relay.outbound = "await_event"
    /\ relay.others = 1
    /\ SID \in DOMAIN sessions
    /\ sessions[SID].current_question_index = 1
    /\ Len(sessions[SID].transcript) = 1

\* C33, second state: a connection opened after the interview was completed
\* has a running task pair.
C33_RelayOnCompleteSession ==
    /\ relay.handler = "returned"
    /\ relay.others = 1
    /\ SID \in DOMAIN sessions
    /\ sessions[SID].phase = "complete"

\* The runs that are executing a stage: waiting for a response or asleep
\* between two attempts.
InStages == {r \in Runs : IsPipelineRun(runs[r]) /\ runs[r].pc \in {"attempt", "sleep"}}

\* C34: at most one pipeline run of the session executes the stages at any
\* time.
C34_OneRunInFlight == Cardinality(InStages) <= 1

\* C34, the state the code reaches: both runs were scheduled by the endpoint,
\* both were entered, and both wait for a Stage 1 response.
C34_TwoRunsInStageOne ==
    /\ \A r \in Runs : /\ runs[r].caller = "endpoint"
                        /\ runs[r].pc = "attempt"
                        /\ runs[r].stage = 1
    /\ runs[1].entered_from = "completed"
    /\ runs[2].entered_from = "evaluating"

\* The session-store operations called from outside with a session id.
StoreOps ==
    {"get_session", "update_phase", "update_status", "add_transcript_entry",
     "get_next_question", "get_transcript_for_evaluation", "store_feedback"}

\* A report handed to store_feedback from outside.
GhostReport == [status |-> "success", shape |-> "parsed", stage |-> 2, run |-> 0]

\* One session-store operation applied to sid: the stores after the call and
\* whether the call returned the operation's not-found value (None for
\* get_session, get_next_question and get_transcript_for_evaluation, False
\* for the others).
store_call(op, ss, fs, sid) ==
    CASE op = "get_session" ->
           [sessions |-> ss, feedback_store |-> fs,
            not_found |-> get_session(ss, sid) = Nil]
      [] op = "update_phase" ->
           LET out == update_phase(ss, sid, "complete")
           IN  [sessions |-> out.sessions, feedback_store |-> fs,
                not_found |-> ~out.ret]
      [] op = "update_status" ->
           LET out == update_status(ss, sid, "evaluated")
           IN  [sessions |-> out.sessions, feedback_store |-> fs,
                not_found |-> ~out.ret]
      [] op = "add_transcript_entry" ->
           LET out == add_transcript_entry(ss, sid, "candidate", <<"a">>, NoId)
           IN  [sessions |-> out.sessions, feedback_store |-> fs,
                not_found |-> ~out.ret]
      [] op = "get_next_question" ->
           LET out == get_next_question(ss, sid)
           IN  [sessions |-> out.sessions, feedback_store |-> fs,
                not_found |-> out.ret = Nil]
      [] op = "get_transcript_for_evaluation" ->
           [sessions |-> ss, feedback_store |-> fs,
            not_found |-> ~get_transcript_for_evaluation(ss, sid).found]
      [] OTHER ->
           LET out == store_feedback(ss, fs, sid, GhostReport)
           IN  [sessions |-> out.sessions, feedback_store |-> out.feedback_store,
                not_found |-> ~out.ret]

\* A session-store operation is called with a session id nobody created.
GhostCall(op) ==
    LET out == store_call(op, sessions, feedback_store, GhostId)
    IN  /\ sessions' = out.sessions
        /\ feedback_store' = out.feedback_store
        /\ Logged(op, GhostId, [not_found |-> out.not_found])
        /\ UNCHANGED <<runs, logging, hist, relay>>

\* A client connects to /ws/interview/{id} with an id nobody created.
GhostConnect ==
    /\ relay.handler = "none"
    /\ relay' = websocket_endpoint(sessions, GhostId)
    /\ UNCHANGED <<sessions, feedback_store, runs, logging, last, hist>>

\* A session's life with a pipeline run, and beside it calls and a
\* connection under an id nobody created.
NextGhost ==
    \/ \E inp \in NarrowInputs : create_session(inp)
    \/ ToolGetNextQuestion(SID)
    \/ ToolSignalPhaseChange(SID, "complete")
    \/ \E r \in Runs : evaluate_interview(SID, r)
    \/ \E r \in Runs : RunEvaluationStart(r)
    \/ \E r \in Runs, kind \in {"parsed", "exception"} : AttemptEnd(r, kind)
    \/ \E r \in Runs : SleepEnd(r)
    \/ \E op \in StoreOps : GhostCall(op)
    \/ \E r \in Runs : RunEvaluationDirect(r, GhostId)
    \/ GhostConnect
    \/ HandlerResumes
    \/ HandlerAwaitRaises
    \/ ClientDisconnect

SpecGhost == Init /\ [][NextGhost]_vars

\* C35: a session-store operation called with an unknown id returns its
\* not-found value and leaves every session and the feedback store as they
\* are; run_evaluation with an unknown id returns an error, calls no stage
\* and changes nothing; on a relay connection for an unknown id the handler
\* closes the connection without accepting it, starts no task, sends no
\* message and changes no session, and when the close has returned the
\* handler has returned and the connection is closed.
C35_UnknownIdChangesNothing ==
    [][/\ (last'.tick # last.tick /\ last'.op \in StoreOps
                                  /\ last'.arg = GhostId) =>
             /\ last'.ret.not_found
             /\ sessions' = sessions
             /\ feedback_store' = feedback_store
       /\ \A r \in Runs :
             (EntersNow(r) /\ runs'[r].session_id = GhostId) =>
                 /\ runs'[r].pc = "returned"
                 /\ runs'[r].result = ErrorResult("Session not found")
                 /\ runs'[r].calls = 0
                 /\ sessions' = sessions
                 /\ feedback_store' = feedback_store
       /\ (relay.handler = "none" /\ relay'.handler # "none") =>
             /\ relay' = [NoRelay EXCEPT !.handler = "closing",
                                         !.client = "open"]
             /\ sessions' = sessions
             /\ feedback_store' = feedback_store
       /\ relay.handler = "closing" =>
             /\ relay' \in {relay,
                             [relay EXCEPT !.client = "gone"],
                             [NoRelay EXCEPT !.handler = "returned",
                                             !.client = "closed"],
                             [NoRelay EXCEPT !.handler = "raised",
                                             !.client = "gone"]}
             /\ relay'.handler = "raised" => relay.client = "gone"
       /\ relay.handler \in {"returned", "raised"} => relay' = relay]_vars

\* C35 witness: with a session evaluated and its report stored, store_feedback
\* was called with an unknown id and returned False; the store holds the one
\* report.
C35_Witness ==
    /\ last.op = "store_feedback"
    /\ last.arg = GhostId
    /\ last.ret.not_found
    /\ DOMAIN feedback_store = {SID}
    /\ DOMAIN sessions = {SID}
    /\ sessions[SID].status = "evaluated"

\* C35, second witness state: the close of the connection for an unknown id
\* has returned, the connection is closed unaccepted with nothing sent, and
\* run_evaluation with an unknown id has returned its error.
C35_GhostConnectionClosed ==
    /\ relay.handler = "returned"
    /\ relay.client = "closed"
    /\ relay.sent = <<>>
    /\ \E r \in Runs : /\ runs[r].session_id = GhostId
                        /\ runs[r].pc = "returned"
                        /\ runs[r].result = ErrorResult("Session not found")

\* Sessions from every question source, driven through the tool
\* get_next_question, with the candidate's answers recorded in between.
NextTool ==
    \/ \E inp \in WideInputs : create_session(inp)
    \/ ToolGetNextQuestion(SID)
    \/ CandidateEntry(SID, <<"a">>)

SpecTool == InitWith(FALSE) /\ [][NextTool]_vars

\* An interviewer entry that carries a question id.
IsTagged(e) == e.role = "interviewer" /\ e.question_id # NoId

\* C36: the cursor lies between 0 and the length of the question list and
\* never decreases; the interviewer entries that carry a question id are as
\* many as the cursor says, and their ids are, in transcript order, the ids
\* of the questions before the cursor.
C36_CursorMatchesTranscript ==
    /\ [](\A sid \in DOMAIN sessions :
            LET session == sessions[sid]
                tagged == SelectSeq(session.transcript, IsTagged)
            IN  /\ 0 <= session.current_question_index
                /\ session.current_question_index <= Len(session.questions)
                /\ Len(tagged) = session.current_question_index
                /\ \A k \in 1..Len(tagged) :
                      tagged[k].question_id = session.questions[k].id)
    /\ [][\A sid \in DOMAIN sessions :
             sessions'[sid].current_question_index
                >= sessions[sid].current_question_index]_vars

\* C36 witness: all four questions of the list were handed out, an answer
\* was recorded in between, and a further call found the list exhausted.
C36_Witness ==
    /\ SID \in DOMAIN sessions
    /\ Len(sessions[SID].questions) = 4
    /\ sessions[SID].current_question_index = 4
    /\ Len(sessions[SID].transcript) = 5
    /\ sessions[SID].transcript[2].role = "candidate"
    /\ hist.exhausted

\* C37: a session in status evaluated has a report in the feedback store, and
\* the feedback endpoint has never answered "feedback not found".
C37_EvaluatedHasReport ==
    /\ \A sid \in DOMAIN sessions :
          sessions[sid].status = "evaluated" => sid \in DOMAIN feedback_store
    /\ last.op = "get_feedback" => last.ret.kind # "feedback_not_found"

\* C37 witness: the phase closing was signalled after the interview was
\* completed, a run stored its report, and the feedback endpoint has
\* answered with the stored report for the evaluated session.
C37_Witness ==
    /\ last.op = "get_feedback"
    /\ last.ret.kind = "report"
    /\ last.ret.body = feedback_store[SID]
    /\ sessions[SID].status = "evaluated"
    /\ sessions[SID].phase = "closing"

\* C38: no session is ever in status failed: every status the program assigns
\* is one of created, in_progress, completed, evaluating, evaluated.
C38_FailedUnreachable ==
    \A sid \in DOMAIN sessions :
        sessions[sid].status \in InterviewStatus \ {"failed"}

\* C38 witness: a pipeline run has ended in an error after Stage 2 used up
\* its attempts, and the session is completed, not failed.
C38_Witness ==
    /\ SID \in DOMAIN sessions
    /\ \E r \in OneRun :
          /\ runs[r].pc = "returned"
          /\ runs[r].caller # "stage"
          /\ runs[r].session_id = SID
          /\ runs[r].result.status = "error"
          /\ runs[r].result.message = "Feedback generation failed"
    /\ sessions[SID].phase = "complete"
    /\ sessions[SID].status = "completed"

\* The events of the typed-answer specification: no audio, every combination
\* of fragments of the agent's and of the candidate's speech.
TextEvents == {e \in EventArgs : e.audio = 0}

\* One relay connection whose client may answer by text_input frames, with
\* the model's transcription events and the ends of both tasks.
NextText ==
    \/ \E inp \in RelayInputs : create_session(inp)
    \/ RelayConnect(SID)
    \/ HandlerResumes
    \/ HandlerAwaitRaises
    \/ ClientFrame(SID, "text_input")
    \/ ClientDisconnect
    \/ InboundDisconnected
    \/ \E event \in TextEvents : EventArrives(SID, event)
    \/ SendCompletes(SID)
    \/ SendRaises
    \/ StreamFails
    \/ StreamEnds
    \/ HandlerReturns

SpecText == InitWith(FALSE) /\ [][NextText]_vars

\* The positions in sent of the transcript messages of `role`, interim and
\* final.
Fragments_of(sent, role) ==
    {i \in 1..Len(sent) : sent[i].type = "transcript" /\ sent[i].role = role}

OtherRole(role) == IF role = "agent" THEN "user" ELSE "agent"

\* C39: after a final transcript message of a role, no transcript message of
\* that role, interim or final, is sent before a final transcript message of
\* the other role; handling a text_input frame leaves both suppression flags
\* as they were; so while no final user transcript message was sent, no agent
\* transcript message follows the first final agent transcript message.
C39_SilentUntilOtherRoleFinal ==
    /\ [](\A role \in {"agent", "user"} :
            \A i \in Finals(relay.sent, role) :
                \A j \in Fragments_of(relay.sent, role) :
                    i < j => \E k \in Finals(relay.sent, OtherRole(role)) :
                                i < k /\ k < j)
    /\ [](Finals(relay.sent, "user") = {}
            => \A i \in Finals(relay.sent, "agent") :
                  \A j \in Fragments_of(relay.sent, "agent") : j <= i)
    /\ [][FrameHandled => /\ relay'.output_done = relay.output_done
                          /\ relay'.input_done = relay.input_done
                          /\ relay'.sent = relay.sent]_vars

\* C39 witness: the agent's final fragment was sent, the candidate answered
\* by a text_input, which was recorded, and a further event with a fragment
\* of the agent's speech was processed without an agent transcript message.
C39_Witness ==
    /\ relay.frames = <<"text_input">>
    /\ Len(relay.events) = 2
    /\ relay.events[1] = [audio |-> 0, out |-> "final", inp |-> "none"]
    /\ relay.events[2] = [audio |-> 0, out |-> "interim", inp |-> "none"]
    /\ relay.outbound = "await_event"
    /\ relay.output_done
    /\ Fragments_of(relay.sent, "agent") = Finals(relay.sent, "agent")
    /\ Cardinality(Finals(relay.sent, "agent")) = 1
    /\ relay.sent[Len(relay.sent)] = PhaseMsg(sessions[SID].phase, 2)
    /\ TextsOf(sessions[SID].transcript) = << <<"t", 1>> >>

====
